---- MODULE Spec2Model ----
(***************************************************************************)
(* Model of worktreefoundry's workspace lifecycle, validator and           *)
(* structured three-way merge engine (internal/app).                       *)
(*                                                                         *)
(* Representation.                                                         *)
(*   - raw text (manual conflict values) is a sequence of one-character    *)
(*     strings;                                                            *)
(*   - a normalized value is a tuple whose head is its kind:               *)
(*       <<"null">>, <<"bool", b>>, <<"num", mantissa, exp10>>,            *)
(*       <<"str", chars>>, <<"seq", v1, ..., vn>>;                         *)
(*   - a field map (Go map[string]any) is a function from field names to   *)
(*     values; the empty map is << >>;                                     *)
(*   - the bytes of a file are a record [kind, fields, canon]: kind is     *)
(*     "absent", "junk" (bytes the YAML parser rejects) or "obj"; canon    *)
(*     tells the canonical serialization of the fields from another byte   *)
(*     string that parses to the same fields;                              *)
(*   - a tree (commit content or working directory) maps every modelled    *)
(*     path to the bytes of the file there.                                *)
(***************************************************************************)
EXTENDS Integers, Sequences, FiniteSets, TLC

(***************************************************************************)
(* Bounds of the model.                                                    *)
(***************************************************************************)
MaxCommits == 5
MaxEdits == 2
MaxCalls == 2

(***************************************************************************)
(* Generic helpers.                                                        *)
(***************************************************************************)
Range(s) == {s[i] : i \in DOMAIN s}

RECURSIVE FlattenSeq(_)
FlattenSeq(ss) == IF ss = << >> THEN << >> ELSE Head(ss) \o FlattenSeq(Tail(ss))

HasKey(m, k) == k \in DOMAIN m

MapPut(m, k, v) == [x \in (DOMAIN m) \cup {k} |-> IF x = k THEN v ELSE m[x]]

(***************************************************************************)
(* Normalized values.                                                      *)
(***************************************************************************)
Null == <<"null">>
StrV(chars) == <<"str", chars>>
NumV(m, e) == <<"num", m, e>>
BoolV(b) == <<"bool", b>>
SeqV(items) == <<"seq">> \o items

KindOf(v) == v[1]
SeqItems(v) == SubSeq(v, 2, Len(v))

(* strings.TrimSpace on raw text *)
IsSpace(c) == c \in {" ", "\t", "\n", "\r"}

RECURSIVE TrimLeft(_)
TrimLeft(s) == IF s # << >> /\ IsSpace(Head(s)) THEN TrimLeft(Tail(s)) ELSE s

RECURSIVE TrimRight(_)
TrimRight(s) ==
    IF s # << >> /\ IsSpace(s[Len(s)]) THEN TrimRight(SubSeq(s, 1, Len(s) - 1)) ELSE s

TrimSpace(s) == TrimRight(TrimLeft(s))

(* strings.Split(s, sep) for a one-character separator *)
RECURSIVE SplitOn(_, _)
SplitOn(s, sep) ==
    IF \A i \in DOMAIN s : s[i] # sep
    THEN <<s>>
    ELSE LET i == CHOOSE j \in DOMAIN s : s[j] = sep /\ \A k \in 1..(j - 1) : s[k] # sep
         IN  <<SubSeq(s, 1, i - 1)>> \o SplitOn(SubSeq(s, i + 1, Len(s)), sep)

(***************************************************************************)
(* YAML scalar rules (parseYAMLScalar) on raw text.                        *)
(***************************************************************************)
Digits == {"0", "1", "2", "3", "4", "5", "6", "7", "8", "9"}

DigitVal(c) ==
    CASE c = "0" -> 0 [] c = "1" -> 1 [] c = "2" -> 2 [] c = "3" -> 3 [] c = "4" -> 4
      [] c = "5" -> 5 [] c = "6" -> 6 [] c = "7" -> 7 [] c = "8" -> 8 [] c = "9" -> 9

AllDigits(s) == \A i \in DOMAIN s : s[i] \in Digits

RECURSIVE IntOf(_)
IntOf(s) == IF s = << >> THEN 0 ELSE 10 * IntOf(SubSeq(s, 1, Len(s) - 1)) + DigitVal(s[Len(s)])

HasSign(s) == s # << >> /\ Head(s) \in {"+", "-"}
StripSign(s) == IF HasSign(s) THEN Tail(s) ELSE s
SignOf(s) == IF s # << >> /\ Head(s) = "-" THEN -1 ELSE 1

(* the part of a number literal before and after its first e/E *)
ExpAt(s) == {i \in DOMAIN s : s[i] \in {"e", "E"}}
FirstExp(s) == CHOOSE i \in ExpAt(s) : \A j \in ExpAt(s) : i <= j
MantissaPart(s) == IF ExpAt(s) = {} THEN s ELSE SubSeq(s, 1, FirstExp(s) - 1)
ExponentPart(s) == IF ExpAt(s) = {} THEN << >> ELSE SubSeq(s, FirstExp(s) + 1, Len(s))

DotAt(s) == {i \in DOMAIN s : s[i] = "."}
IntDigits(m) == IF DotAt(m) = {} THEN m ELSE SubSeq(m, 1, (CHOOSE i \in DotAt(m) : TRUE) - 1)
FracDigits(m) == IF DotAt(m) = {} THEN << >> ELSE SubSeq(m, (CHOOSE i \in DotAt(m) : TRUE) + 1, Len(m))

(* \d+\.?\d* | \.\d+ *)
MantissaOK(m) ==
    /\ Cardinality(DotAt(m)) <= 1
    /\ AllDigits(IntDigits(m))
    /\ AllDigits(FracDigits(m))
    /\ IF DotAt(m) = {} THEN m # << >> ELSE IntDigits(m) # << >> \/ FracDigits(m) # << >>

(* numberLiteralPattern: ^[+-]?(?:\d+\.?\d*|\.\d+)(?:[eE][+-]?\d+)?$ *)
numberLiteralPattern(raw) ==
    LET body == StripSign(raw)
    IN  /\ MantissaOK(MantissaPart(body))
        /\ ExpAt(body) # {} =>
               /\ StripSign(ExponentPart(body)) # << >>
               /\ AllDigits(StripSign(ExponentPart(body)))

RECURSIVE NormNum(_, _)
NormNum(m, e) ==
    IF m = 0 THEN NumV(0, 0)
    ELSE IF m % 10 = 0 THEN NormNum(m \div 10, e + 1)
    ELSE NumV(m, e)

(* strconv.ParseFloat of a literal accepted by numberLiteralPattern; the   *)
(* float is kept as mantissa * 10^exp with no trailing zero in mantissa.   *)
ParseFloat(raw) ==
    LET body == StripSign(raw)
        mant == MantissaPart(body)
        ex == ExponentPart(body)
        m == IntOf(IntDigits(mant) \o FracDigits(mant))
        e == SignOf(ex) * IntOf(StripSign(ex)) - Len(FracDigits(mant))
    IN  NormNum(SignOf(raw) * m, e)

(* the \xHH escapes of the model: \x20 is the blank, \x23 is #            *)
HexEscape(hh) ==
    CASE hh = <<"2", "0">> -> " "
      [] hh = <<"2", "3">> -> "#"
      [] OTHER -> ""

(* strconv.Unquote of the inside of a double-quoted literal, for the       *)
(* escapes \\ \" \n \t \r and \x20 \x23; a bare quote or any other escape  *)
(* is an error.                                                            *)
RECURSIVE Unescape(_)
Unescape(s) ==
    IF s = << >> THEN [ok |-> TRUE, out |-> << >>]
    ELSE IF Head(s) = "\"" THEN [ok |-> FALSE, out |-> << >>]
    ELSE IF Len(s) >= 4 /\ Head(s) = "\\" /\ s[2] = "x" /\ HexEscape(SubSeq(s, 3, 4)) # "" THEN
        LET rest == Unescape(SubSeq(s, 5, Len(s)))
        IN  [ok |-> rest.ok, out |-> <<HexEscape(SubSeq(s, 3, 4))>> \o rest.out]
    ELSE IF Head(s) = "\\" THEN
        IF Len(s) < 2 \/ s[2] \notin {"\\", "\"", "n", "t", "r"}
        THEN [ok |-> FALSE, out |-> << >>]
        ELSE LET rest == Unescape(SubSeq(s, 3, Len(s)))
                 c == CASE s[2] = "n" -> "\n" [] s[2] = "t" -> "\t"
                        [] s[2] = "r" -> "\r" [] OTHER -> s[2]
             IN  [ok |-> rest.ok, out |-> <<c>> \o rest.out]
    ELSE LET rest == Unescape(Tail(s))
         IN  [ok |-> rest.ok, out |-> <<Head(s)>> \o rest.out]

(* parseYAMLScalar: [ok, v]; v is meaningful when ok *)
parseYAMLScalar(raw) ==
    IF raw = <<"[", "]">> THEN [ok |-> TRUE, v |-> SeqV(<< >>)]
    ELSE IF Len(raw) >= 2 /\ raw[1] = "\"" /\ raw[Len(raw)] = "\"" THEN
        LET u == Unescape(SubSeq(raw, 2, Len(raw) - 1))
        IN  [ok |-> u.ok, v |-> StrV(u.out)]
    ELSE IF Len(raw) >= 2 /\ raw[1] = "'" /\ raw[Len(raw)] = "'" THEN
        [ok |-> TRUE, v |-> StrV(SubSeq(raw, 2, Len(raw) - 1))]
    ELSE IF raw = <<"t", "r", "u", "e">> THEN [ok |-> TRUE, v |-> BoolV(TRUE)]
    ELSE IF raw = <<"f", "a", "l", "s", "e">> THEN [ok |-> TRUE, v |-> BoolV(FALSE)]
    ELSE IF raw = <<"n", "u", "l", "l">> THEN [ok |-> TRUE, v |-> Null]
    ELSE IF numberLiteralPattern(raw) THEN [ok |-> TRUE, v |-> ParseFloat(raw)]
    ELSE [ok |-> TRUE, v |-> StrV(raw)]

(* parseManualFieldValue: [ok, drop, v]; drop is Go's (nil, nil) result,   *)
(* which the merge treats as "no value for this field".                    *)
parseManualFieldValue(raw) ==
    LET trimmed == TrimSpace(raw)
    IN  IF trimmed = << >> THEN [ok |-> TRUE, drop |-> TRUE, v |-> Null]
        ELSE IF \E i \in DOMAIN trimmed : trimmed[i] = "," THEN
            LET parts == SplitOn(trimmed, ",")
                items == [i \in DOMAIN parts |-> parseYAMLScalar(TrimSpace(parts[i]))]
            IN  IF \E i \in DOMAIN items : ~items[i].ok
                THEN [ok |-> FALSE, drop |-> FALSE, v |-> Null]
                ELSE [ok |-> TRUE, drop |-> FALSE, v |-> SeqV([i \in DOMAIN items |-> items[i].v])]
        ELSE LET r == parseYAMLScalar(trimmed)
             IN  [ok |-> r.ok, drop |-> r.ok /\ r.v = Null, v |-> r.v]

(***************************************************************************)
(* Canonical emission of scalars (renderYAMLString, formatNumber).         *)
(***************************************************************************)
UpperLetters == <<"A", "B", "C", "D", "E", "F", "G", "H", "I", "J", "K", "L", "M",
                  "N", "O", "P", "Q", "R", "S", "T", "U", "V", "W", "X", "Y", "Z">>
LowerLetters == <<"a", "b", "c", "d", "e", "f", "g", "h", "i", "j", "k", "l", "m",
                  "n", "o", "p", "q", "r", "s", "t", "u", "v", "w", "x", "y", "z">>

ToLowerChar(c) ==
    IF \E i \in DOMAIN UpperLetters : UpperLetters[i] = c
    THEN LowerLetters[CHOOSE i \in DOMAIN UpperLetters : UpperLetters[i] = c]
    ELSE c

ToLower(s) == [i \in DOMAIN s |-> ToLowerChar(s[i])]

(* safeStringPattern: ^[A-Za-z0-9_./-]+$ *)
safeStringPattern(s) ==
    /\ s # << >>
    /\ \A i \in DOMAIN s :
           s[i] \in Range(UpperLetters) \cup Range(LowerLetters) \cup Digits \cup {"_", ".", "/", "-"}

(* strconv.Quote for printable ASCII and \n \t \r *)
RECURSIVE QuoteBody(_)
QuoteBody(s) ==
    IF s = << >> THEN << >>
    ELSE (CASE Head(s) = "\\" -> <<"\\", "\\">>
            [] Head(s) = "\"" -> <<"\\", "\"">>
            [] Head(s) = "\n" -> <<"\\", "n">>
            [] Head(s) = "\t" -> <<"\\", "t">>
            [] Head(s) = "\r" -> <<"\\", "r">>
            [] OTHER -> <<Head(s)>>) \o QuoteBody(Tail(s))

Quote(s) == <<"\"">> \o QuoteBody(s) \o <<"\"">>

renderYAMLString(s) ==
    IF s = << >> THEN <<"\"", "\"">>
    ELSE IF \/ ToLower(s) \in {<<"t", "r", "u", "e">>, <<"f", "a", "l", "s", "e">>, <<"n", "u", "l", "l">>}
            \/ numberLiteralPattern(s)
         THEN Quote(s)
    ELSE IF safeStringPattern(s) THEN s
    ELSE Quote(s)

DigitChar(d) == <<"0", "1", "2", "3", "4", "5", "6", "7", "8", "9">>[d + 1]

RECURSIVE DigitsOf(_)
DigitsOf(n) == IF n < 10 THEN <<DigitChar(n)>> ELSE DigitsOf(n \div 10) \o <<DigitChar(n % 10)>>

Zeros(k) == [i \in 1..k |-> "0"]

(* formatNumber: "%d" when the number equals its integer truncation, else  *)
(* "%g" (shortest digits; exponent form when the decimal exponent is below *)
(* -4 or at least 6).  Numbers are within the int64 and the exactly        *)
(* representable range.                                                    *)
formatNumber(v) ==
    LET m == v[2]
        e == v[3]
        neg == IF m < 0 THEN <<"-">> ELSE << >>
        ds == DigitsOf(IF m < 0 THEN -m ELSE m)
        x == Len(ds) + e - 1
    IN  IF e >= 0 THEN neg \o ds \o Zeros(e)
        ELSE IF x < -4 \/ x >= 6 THEN
            neg \o <<Head(ds)>> \o (IF Len(ds) > 1 THEN <<".">> \o Tail(ds) ELSE << >>)
                \o <<"e", IF x < 0 THEN "-" ELSE "+">>
                \o (LET xs == DigitsOf(IF x < 0 THEN -x ELSE x)
                    IN  IF Len(xs) < 2 THEN <<"0">> \o xs ELSE xs)
        ELSE IF x < 0 THEN neg \o <<"0", ".">> \o Zeros(-x - 1) \o ds
        ELSE neg \o SubSeq(ds, 1, x + 1) \o <<".">> \o SubSeq(ds, x + 2, Len(ds))

(* renderYAMLScalar, for a sequence item: [ok, text] *)
renderYAMLScalar(v) ==
    CASE KindOf(v) = "str" -> [ok |-> TRUE, text |-> renderYAMLString(v[2])]
      [] KindOf(v) = "num" -> [ok |-> TRUE, text |-> formatNumber(v)]
      [] KindOf(v) = "null" -> [ok |-> TRUE, text |-> <<"n", "u", "l", "l">>]
      [] OTHER -> [ok |-> FALSE, text |-> << >>]

(***************************************************************************)
(* Files.  The bytes of an object file are a record [exists, lines];       *)
(* lines maps each top-level key to its entry: <<"scalar", text>> for      *)
(* "key: text" and <<"list", t1, ..., tn>> for "key:" followed by the      *)
(* items "  - t1" ... "  - tn".                                            *)
(***************************************************************************)
NoFile == [exists |-> FALSE, lines |-> << >>]
FileOf(lines) == [exists |-> TRUE, lines |-> lines]

ScalarLine(text) == <<"scalar", text>>
ListLines(texts) == <<"list">> \o texts
EntryTexts(entry) == SubSeq(entry, 2, Len(entry))

(* a line is rejected as a comment when it contains " #"; the text of an   *)
(* entry follows "key: " or "  - "                                         *)
HasComment(text) ==
    \/ text # << >> /\ Head(text) = "#"
    \/ \E i \in 1..(Len(text) - 1) : text[i] = " " /\ text[i + 1] = "#"

ParseEntry(entry) ==
    IF entry[1] = "scalar" /\ TrimSpace(entry[2]) # << >>
    THEN IF HasComment(entry[2]) THEN [ok |-> FALSE, v |-> Null]
         ELSE parseYAMLScalar(TrimSpace(entry[2]))
    ELSE LET texts == IF entry[1] = "scalar" THEN << >> ELSE EntryTexts(entry)
             list(items) ==
                 IF \E i \in DOMAIN texts :
                        HasComment(texts[i]) \/ TrimSpace(texts[i]) = << >> \/ ~items[i].ok
                 THEN [ok |-> FALSE, v |-> Null]
                 ELSE [ok |-> TRUE, v |-> SeqV([i \in DOMAIN texts |-> items[i].v])]
         IN  list([i \in DOMAIN texts |-> parseYAMLScalar(TrimSpace(texts[i]))])

(* ParseSimpleYAMLObject: [ok, m] *)
ParseSimpleYAMLObject(bytes) ==
    LET object(entries) ==
            IF \E k \in DOMAIN entries : ~entries[k].ok
            THEN [ok |-> FALSE, m |-> << >>]
            ELSE [ok |-> TRUE, m |-> [k \in DOMAIN entries |-> entries[k].v]]
    IN  object([k \in DOMAIN bytes.lines |-> ParseEntry(bytes.lines[k])])

(* normalizeObjectValue succeeds: scalars, and sequences whose items are   *)
(* all strings or all numbers                                              *)
normalizeObjectValue(v) ==
    KindOf(v) = "seq" =>
        \/ \A i \in DOMAIN SeqItems(v) : KindOf(SeqItems(v)[i]) = "str"
        \/ \A i \in DOMAIN SeqItems(v) : KindOf(SeqItems(v)[i]) = "num"

MarshalEntry(v) ==
    CASE KindOf(v) = "null" -> [ok |-> TRUE, entry |-> ScalarLine(<<"n", "u", "l", "l">>)]
      [] KindOf(v) = "str" -> [ok |-> TRUE, entry |-> ScalarLine(renderYAMLString(v[2]))]
      [] KindOf(v) = "bool" ->
            [ok |-> TRUE,
             entry |-> ScalarLine(IF v[2] THEN <<"t", "r", "u", "e">> ELSE <<"f", "a", "l", "s", "e">>)]
      [] KindOf(v) = "num" -> [ok |-> TRUE, entry |-> ScalarLine(formatNumber(v))]
      [] KindOf(v) = "seq" ->
            LET list(items) ==
                    [ok |-> \A i \in DOMAIN items : items[i].ok,
                     entry |-> ListLines([i \in DOMAIN items |-> items[i].text])]
            IN  IF SeqItems(v) = << >> THEN [ok |-> TRUE, entry |-> ScalarLine(<<"[", "]">>)]
                ELSE list([i \in DOMAIN SeqItems(v) |-> renderYAMLScalar(SeqItems(v)[i])])

(* MarshalSimpleYAMLObject / CanonicalYAML: [ok, bytes] *)
MarshalSimpleYAMLObject(data) ==
    LET object(entries) ==
            IF \E k \in DOMAIN entries : ~entries[k].ok
            THEN [ok |-> FALSE, bytes |-> NoFile]
            ELSE [ok |-> TRUE, bytes |-> FileOf([k \in DOMAIN entries |-> entries[k].entry])]
    IN  object([k \in DOMAIN data |-> MarshalEntry(data[k])])

CanonicalYAML(data) == MarshalSimpleYAMLObject(data)

(***************************************************************************)
(* Paths, names and the repository configuration of the model.             *)
(* A repo-relative path is the tuple of its segments with the file name    *)
(* split into stem and extension: data/team/u1.yaml is                     *)
(* <<"data", "team", "u1", ".yaml">>.  The ids u1, u2 stand for UUIDs.     *)
(***************************************************************************)
TeamRel == <<"data", "team", "u1", ".yaml">>
ServiceRel == <<"data", "service", "u2", ".yaml">>

(* config/ui.json, the file SaveUIConfig writes *)
UIConfigRel == <<"config", "ui", ".json">>

(* config/constraints.json, the file LoadConstraints reads *)
ConstraintsRel == <<"config", "constraints", ".json">>

DataPaths == {TeamRel, ServiceRel}
Paths == DataPaths \cup {UIConfigRel, ConstraintsRel}

(* sort.Strings order of the modelled paths *)
SortedPaths == <<ConstraintsRel, UIConfigRel, ServiceRel, TeamRel>>

(* the same order over the data paths of the larger checkouts that the     *)
(* validator is applied to, and the entries below data/ of a checkout as   *)
(* os.ReadDir lists them                                                   *)
ServiceRel1 == <<"data", "service", "u1", ".yaml">>
TeamRel2 == <<"data", "team", "u2", ".yaml">>
AllSortedPaths == <<ServiceRel1, ServiceRel, TeamRel, TeamRel2>>

CheckoutPaths(co) == SelectSeq(AllSortedPaths, LAMBDA p : p \in DOMAIN co.files)

PathString(rel) ==
    IF Len(rel) = 4 THEN rel[1] \o "/" \o rel[2] \o "/" \o rel[3] \o rel[4]
    ELSE rel[1] \o "/" \o rel[2] \o rel[3]

PathType(rel) == rel[2]
PathID(rel) == rel[3]

UUIDs == {"u1", "u2"}
uuidPattern(id) == id \in UUIDs

RECURSIVE ToStr(_)
ToStr(chars) == IF chars = << >> THEN "" ELSE Head(chars) \o ToStr(Tail(chars))

CharsOf(name) ==
    CASE name = "team" -> <<"t", "e", "a", "m">>
      [] name = "service" -> <<"s", "e", "r", "v", "i", "c", "e">>
      [] name = "u1" -> <<"u", "1">>
      [] name = "u2" -> <<"u", "2">>

(* sort.Strings order of the field and type names of the model; a Go map   *)
(* is ranged over in an unspecified order, modelled by ord: ascending or   *)
(* descending.                                                             *)
SortedNames == <<"_id", "_type", "code", "name", "service", "team", "teamId", "tier">>
MapOrders == {"asc", "desc"}

SortedKeys(keys) == SelectSeq(SortedNames, LAMBDA k : k \in keys)
Reverse(q) == [i \in DOMAIN q |-> q[Len(q) + 1 - i]]
RangeOrder(keys, ord) == IF ord = "asc" THEN SortedKeys(keys) ELSE Reverse(SortedKeys(keys))

(* config/schemas/*.schema.json as loaded by LoadSchemas; MinLength and    *)
(* MaxLength of -1 are Go's nil                                            *)
StringProp(min) ==
    [Type |-> "string", Enum |-> << >>, MinLength |-> min, MaxLength |-> -1, ItemsType |-> ""]

Schemas ==
    [team |-> [Required |-> {"name"},
               Properties |-> [name |-> StringProp(1), code |-> StringProp(-1)]],
     service |-> [Required |-> {"teamId"},
                  Properties |-> [teamId |-> StringProp(-1), tier |-> StringProp(-1)]]]

(* config/constraints.json as loaded by LoadConstraints *)
Constraints ==
    [Unique |-> <<[Type |-> "team", Field |-> "name"]>>,
     ForeignKeys |-> <<[FromType |-> "service", FromField |-> "teamId",
                        ToType |-> "team", ToField |-> "_id"]>>]

(***************************************************************************)
(* Object store.                                                           *)
(***************************************************************************)
IsNonEmptyStr(m, k) == HasKey(m, k) /\ KindOf(m[k]) = "str" /\ m[k][2] # << >>

(* ParseObjectFile(path, expectedType, expectedID) on the bytes at path:   *)
(* [ok, err, data]                                                         *)
ParseObjectFile(bytes, expectedType, expectedID) ==
    LET fail(msg) == [ok |-> FALSE, err |-> msg, data |-> << >>]
        object(p) ==
            IF ~p.ok THEN fail("parse YAML")
            ELSE IF DOMAIN p.m = {} THEN fail("YAML root must contain fields")
            ELSE IF \E k \in DOMAIN p.m : ~normalizeObjectValue(p.m[k]) THEN fail("field: bad array")
            ELSE IF ~IsNonEmptyStr(p.m, "_id") THEN fail("missing _id string")
            ELSE IF ~IsNonEmptyStr(p.m, "_type") THEN fail("missing _type string")
            ELSE IF expectedID # "" /\ p.m["_id"][2] # CharsOf(expectedID)
                 THEN fail("_id does not match filename")
            ELSE IF expectedType # "" /\ p.m["_type"][2] # CharsOf(expectedType)
                 THEN fail("_type does not match folder")
            ELSE [ok |-> TRUE, err |-> "", data |-> p.m]
    IN  IF ~bytes.exists THEN fail("no such file") ELSE object(ParseSimpleYAMLObject(bytes))

(* WriteObject(repoRoot, obj) on the files of a checkout: [ok, files].     *)
(* The file is written at data/<obj.Type>/<obj.ID>.yaml.                   *)
WriteObject(files, obj) ==
    LET rel == <<"data", obj.Type, obj.ID, ".yaml">>
        write(b) == IF ~b.ok THEN [ok |-> FALSE, files |-> files]
                    ELSE [ok |-> TRUE, files |-> [files EXCEPT ![rel] = b.bytes]]
    IN  IF obj.ID = "" \/ obj.Type = "" THEN [ok |-> FALSE, files |-> files]
        ELSE write(CanonicalYAML(obj.Data))

(* DeleteObject(repoRoot, typeName, id) *)
DeleteObject(files, typeName, id) ==
    [files EXCEPT ![<<"data", typeName, id, ".yaml">>] = NoFile]

(* RewriteCanonicalFiles(repoPath, changed): [ok, err, files]; files       *)
(* rewritten before a failing one stay rewritten                           *)
RECURSIVE RewriteCanonicalFiles(_, _)
RewriteCanonicalFiles(files, changed) ==
    IF changed = << >> THEN [ok |-> TRUE, err |-> "", files |-> files]
    ELSE LET rel == Head(changed)
             write(b) ==
                 IF ~b.ok THEN [ok |-> FALSE, err |-> "unsupported field type", files |-> files]
                 ELSE RewriteCanonicalFiles([files EXCEPT ![rel] = b.bytes], Tail(changed))
             rewrite(obj) ==
                 IF ~obj.ok
                 THEN [ok |-> FALSE, err |-> "canonicalize " \o PathString(rel) \o ": " \o obj.err,
                       files |-> files]
                 ELSE write(CanonicalYAML(obj.data))
         IN  IF rel[1] # "data" \/ rel[Len(rel)] # ".yaml" \/ ~files[rel].exists
             THEN RewriteCanonicalFiles(files, Tail(changed))
             ELSE rewrite(ParseObjectFile(files[rel], PathType(rel), PathID(rel)))

(***************************************************************************)
(* Validator.  A checkout is [files, dataDir]: the files of the modelled   *)
(* paths and whether the directory data/ exists.  config/ holds Schemas    *)
(* and Constraints in every checkout.                                      *)
(***************************************************************************)
Issue(stage, path, field, msg) == [Stage |-> stage, Path |-> path, Field |-> field, Message |-> msg]

(* ValidationIssue.String *)
IssueString(i) ==
    IF i.Field # "" THEN "[" \o i.Stage \o "] " \o i.Path \o " (" \o i.Field \o "): " \o i.Message
    ELSE IF i.Path # "" THEN "[" \o i.Stage \o "] " \o i.Path \o ": " \o i.Message
    ELSE "[" \o i.Stage \o "] " \o i.Message

(* validateLayout: every modelled path below data/ is                     *)
(* data/<type>/<uuid>.yaml; config/ holds schemas/ and constraints.json in *)
(* every checkout, and any other entry of config/ is reported              *)
validateLayout(co) ==
    LET data(paths) ==
            FlattenSeq([i \in DOMAIN paths |->
                IF co.dataDir /\ co.files[paths[i]].exists /\ ~uuidPattern(PathID(paths[i]))
                THEN <<Issue("layout", PathString(paths[i]), "", "filename must be a UUID")>>
                ELSE << >>])
        config ==
            IF UIConfigRel \in DOMAIN co.files /\ co.files[UIConfigRel].exists
            THEN <<Issue("layout", PathString(UIConfigRel), "", "file is not allowed under config/")>>
            ELSE << >>
    IN  (IF ~co.dataDir THEN <<Issue("layout", "data", "", "missing data directory")>> ELSE << >>)
        \o data(CheckoutPaths(co))
        \o config

(* loadObjectsWithIssues: [objects, issues]; objects lists the parsed      *)
(* objects (type directories and files are read in name order)             *)
loadObjectsWithIssues(co) ==
    LET load(paths, parsed) ==
            [objects |->
                 FlattenSeq([i \in DOMAIN paths |->
                     IF co.files[paths[i]].exists /\ parsed[i].ok
                     THEN <<[ID |-> PathID(paths[i]), Type |-> PathType(paths[i]),
                             Data |-> parsed[i].data, Path |-> PathString(paths[i])]>>
                     ELSE << >>]),
             issues |->
                 FlattenSeq([i \in DOMAIN paths |->
                     IF co.files[paths[i]].exists /\ ~parsed[i].ok
                     THEN <<Issue("parse", PathString(paths[i]), "", parsed[i].err)>>
                     ELSE << >>])]
        read(paths) ==
            load(paths, [i \in DOMAIN paths |->
                            ParseObjectFile(co.files[paths[i]], PathType(paths[i]), PathID(paths[i]))])
    IN  IF ~co.dataDir
        THEN [objects |-> << >>, issues |-> <<Issue("parse", "data", "", "no such file or directory")>>]
        ELSE read(CheckoutPaths(co))

validateObjectInvariants(obj) ==
    (IF ~uuidPattern(obj.ID) THEN <<Issue("parse", obj.Path, "_id", "must be a UUID")>> ELSE << >>)
    \o (IF obj.Type = "" THEN <<Issue("parse", obj.Path, "_type", "must be non-empty")>> ELSE << >>)

validateProperty(field, value, prop, path) ==
    LET one(msg) == <<Issue("schema", path, field, msg)>>
        items == SeqItems(value)
    IN  IF value = Null THEN << >>
        ELSE CASE prop.Type = "string" ->
                    IF KindOf(value) # "str" THEN one("must be a string")
                    ELSE (IF prop.MinLength # -1 /\ Len(value[2]) < prop.MinLength
                          THEN one("length must be >= min") ELSE << >>)
                      \o (IF prop.MaxLength # -1 /\ Len(value[2]) > prop.MaxLength
                          THEN one("length must be <= max") ELSE << >>)
                      \o (IF prop.Enum # << >> /\ value[2] \notin Range(prop.Enum)
                          THEN one("value must be one of enum values") ELSE << >>)
               [] prop.Type \in {"number", "integer"} ->
                    IF KindOf(value) # "num" THEN one("must be a number")
                    ELSE IF prop.Type = "integer" /\ value[3] < 0 THEN one("must be an integer")
                    ELSE << >>
               [] prop.Type = "boolean" ->
                    IF KindOf(value) # "bool" THEN one("must be a boolean") ELSE << >>
               [] prop.Type = "array" ->
                    IF KindOf(value) # "seq" THEN one("must be an array")
                    ELSE FlattenSeq([i \in DOMAIN items |->
                             CASE prop.ItemsType = "string" ->
                                    IF KindOf(items[i]) # "str" THEN one("array items must be strings")
                                    ELSE << >>
                               [] prop.ItemsType \in {"number", "integer"} ->
                                    IF KindOf(items[i]) # "num" THEN one("array items must be numbers")
                                    ELSE IF prop.ItemsType = "integer" /\ items[i][3] < 0
                                         THEN one("array items must be integers")
                                    ELSE << >>
                               [] OTHER -> << >>])
               [] OTHER -> << >>

validateObjectSchema(obj, schema, ord) ==
    LET req == RangeOrder(schema.Required, ord)
        fields == RangeOrder(DOMAIN obj.Data \ {"_id", "_type"}, ord)
    IN  FlattenSeq([i \in DOMAIN req |->
            IF ~HasKey(obj.Data, req[i]) \/ obj.Data[req[i]] = Null
            THEN <<Issue("schema", obj.Path, req[i], "required field is missing")>>
            ELSE << >>])
        \o FlattenSeq([i \in DOMAIN fields |->
            IF ~HasKey(schema.Properties, fields[i])
            THEN <<Issue("schema", obj.Path, fields[i], "field is not defined in schema")>>
            ELSE validateProperty(fields[i], obj.Data[fields[i]], schema.Properties[fields[i]], obj.Path)])

constraintValueKeyUntyped(v) ==
    CASE KindOf(v) = "str" -> v[2]
      [] KindOf(v) = "num" -> formatNumber(v)
      [] KindOf(v) = "bool" -> IF v[2] THEN <<"t", "r", "u", "e">> ELSE <<"f", "a", "l", "s", "e">>
      [] OTHER -> << >>

(* constraintValueKey: "" for a value that is no scalar *)
constraintValueKey(v) ==
    CASE KindOf(v) = "str" -> <<"s", ":">> \o v[2]
      [] KindOf(v) = "num" -> <<"n", ":">> \o formatNumber(v)
      [] KindOf(v) = "bool" -> IF v[2] THEN <<"b", ":", "t", "r", "u", "e">>
                               ELSE <<"b", ":", "f", "a", "l", "s", "e">>
      [] OTHER -> << >>

HasValue(obj, field) == HasKey(obj.Data, field) /\ obj.Data[field] # Null

(* the unique loop over the objects of one type, with the keys seen so far *)
RECURSIVE uniqueScan(_, _, _)
uniqueScan(objs, field, seen) ==
    IF objs = << >> THEN << >>
    ELSE LET obj == Head(objs)
             key == constraintValueKey(obj.Data[field])
         IN  IF ~HasValue(obj, field) THEN uniqueScan(Tail(objs), field, seen)
             ELSE IF key = << >>
                  THEN <<Issue("constraints", obj.Path, field, "unique constraint requires scalar field")>>
                       \o uniqueScan(Tail(objs), field, seen)
             ELSE IF key \in seen
                  THEN <<Issue("constraints", obj.Path, field, "duplicate value")>>
                       \o uniqueScan(Tail(objs), field, seen)
             ELSE uniqueScan(Tail(objs), field, seen \cup {key})

foreignKeyScan(objects, fk) ==
    LET ofType(t) == SelectSeq(objects, LAMBDA o : o.Type = t)
        key(o, field) == IF HasValue(o, field) THEN constraintValueKey(o.Data[field]) ELSE << >>
        scan(sources, targets) ==
            FlattenSeq([i \in DOMAIN sources |->
                IF ~HasValue(sources[i], fk.FromField) THEN << >>
                ELSE IF key(sources[i], fk.FromField) = << >>
                     THEN <<Issue("constraints", sources[i].Path, fk.FromField,
                                  "foreign key must be a scalar value")>>
                ELSE IF key(sources[i], fk.FromField) \notin targets
                     THEN <<Issue("constraints", sources[i].Path, fk.FromField,
                                  "reference does not exist in " \o fk.ToType \o "." \o fk.ToField)>>
                ELSE << >>])
    IN  scan(ofType(fk.FromType), {key(o, fk.ToField) : o \in Range(ofType(fk.ToType))} \ {<< >>})

validateConstraints(objects, constraints) ==
    FlattenSeq([i \in DOMAIN constraints.Unique |->
        uniqueScan(SelectSeq(objects, LAMBDA o : o.Type = constraints.Unique[i].Type),
                   constraints.Unique[i].Field, {})])
    \o FlattenSeq([i \in DOMAIN constraints.ForeignKeys |->
        foreignKeyScan(objects, constraints.ForeignKeys[i])])

(* ValidateRepository(root): the issues, in the order they are added; ord  *)
(* is the order in which the Go maps are ranged over                       *)
ValidateRepository(co, ord) ==
    LET validate(loaded) ==
            LET types == RangeOrder({o.Type : o \in Range(loaded.objects)}, ord)
                ofType(t) == SelectSeq(loaded.objects, LAMBDA o : o.Type = t)
                each(objs, schema) ==
                    FlattenSeq([j \in DOMAIN objs |->
                        validateObjectInvariants(objs[j]) \o validateObjectSchema(objs[j], schema, ord)])
            IN  loaded.issues
                \o FlattenSeq([i \in DOMAIN types |->
                       IF ~HasKey(Schemas, types[i])
                       THEN <<Issue("schema", "data/" \o types[i], "", "missing schema file")>>
                       ELSE each(ofType(types[i]), Schemas[types[i]])])
                \o validateConstraints(loaded.objects, Constraints)
    IN  validateLayout(co) \o validate(loadObjectsWithIssues(co))

(***************************************************************************)
(* Three-way merge of one object (mergeThreeWayObject).                    *)
(* A Go map that may be nil is [nil, m].                                   *)
(***************************************************************************)
NilMap == [nil |-> TRUE, m |-> << >>]
SomeMap(m) == [nil |-> FALSE, m |-> m]

(* map[key] of a map[string]string: "" when the key is missing *)
Lookup(m, k) == IF k \in DOMAIN m THEN m[k] ELSE ""
LookupText(m, k) == IF k \in DOMAIN m THEN m[k] ELSE << >>

(* a key with a single colon *)
conflictKeySingleColon(file, field) == file \o ":" \o field

conflictKey(file, field) == file \o "::" \o field

(* field value as the merge reads it: Go's nil when the field is missing *)
FieldOrNil(mp, field) == IF HasKey(mp.m, field) THEN mp.m[field] ELSE Null

FieldConflict(rel, field, base, main, ws) ==
    [File |-> PathString(rel), Field |-> field, Base |-> FieldOrNil(base, field),
     Main |-> FieldOrNil(main, field), Workspace |-> FieldOrNil(ws, field),
     Key |-> conflictKey(PathString(rel), field)]

(* a loop body that keeps ours when only theirs differs from base *)
mergeFieldKeepsOurs(rel, field, base, main, ws, resolutions, manual) ==
    LET m == FieldOrNil(main, field)
        w == FieldOrNil(ws, field)
        b == FieldOrNil(base, field)
        key == conflictKey(PathString(rel), field)
        out(set, v, c) == [set |-> set, v |-> v, conflict |-> c]
        byHand(manualValue) ==
            IF ~manualValue.ok THEN out(FALSE, Null, TRUE)
            ELSE out(~manualValue.drop, manualValue.v, FALSE)
    IN  IF m = w \/ m = b \/ w = b THEN out(HasKey(main.m, field), m, FALSE)
        ELSE CASE Lookup(resolutions, key) = "main" -> out(HasKey(main.m, field), m, FALSE)
               [] Lookup(resolutions, key) = "workspace" -> out(HasKey(ws.m, field), w, FALSE)
               [] Lookup(resolutions, key) = "manual" ->
                     byHand(parseManualFieldValue(LookupText(manual, key)))
               [] OTHER -> out(FALSE, Null, TRUE)

(* the body of the loop over keyList for one field: [set, v, conflict];    *)
(* set tells whether merged[field] is assigned v                           *)
mergeField(rel, field, base, main, ws, resolutions, manual) ==
    LET b == FieldOrNil(base, field)
        m == FieldOrNil(main, field)
        w == FieldOrNil(ws, field)
        mOK == HasKey(main.m, field)
        wOK == HasKey(ws.m, field)
        key == conflictKey(PathString(rel), field)
        choice == Lookup(resolutions, key)
        out(set, v, c) == [set |-> set, v |-> v, conflict |-> c]
        byHand(manualValue) ==
            IF ~manualValue.ok THEN out(FALSE, Null, TRUE)
            ELSE out(~manualValue.drop, manualValue.v, FALSE)
    IN  IF m = w THEN out(mOK, m, FALSE)
        ELSE IF m = b THEN out(wOK, w, FALSE)
        ELSE IF w = b THEN out(mOK, m, FALSE)
        ELSE CASE choice = "main" -> out(mOK, m, FALSE)
               [] choice = "workspace" -> out(wOK, w, FALSE)
               [] choice = "manual" -> byHand(parseManualFieldValue(LookupText(manual, key)))
               [] OTHER -> out(FALSE, Null, TRUE)

RECURSIVE mergeFields(_, _, _, _, _, _, _, _)
mergeFields(keyList, rel, base, main, ws, resolutions, manual, acc) ==
    IF keyList = << >> THEN acc
    ELSE LET field == Head(keyList)
             step(d) ==
                 [merged |-> IF d.set THEN MapPut(acc.merged, field, d.v) ELSE acc.merged,
                  conflicts |-> IF d.conflict
                                THEN Append(acc.conflicts, FieldConflict(rel, field, base, main, ws))
                                ELSE acc.conflicts]
         IN  mergeFields(Tail(keyList), rel, base, main, ws, resolutions, manual,
                         step(mergeField(rel, field, base, main, ws, resolutions, manual)))

(* the value mergeThreeWayObject returns for the accumulated map: nil when *)
(* the map has no _id although a base exists, or when the map is empty     *)
mergedResult(base, merged) ==
    IF ~HasKey(merged, "_id") /\ ~base.nil THEN NilMap
    ELSE IF DOMAIN merged = {} THEN NilMap
    ELSE SomeMap(merged)

(* mergeThreeWayObject: [merged, conflicts, acc]; acc is the accumulated   *)
(* field map (the local variable merged) before the final nil checks       *)
mergeThreeWayObject(rel, base, main, ws, resolutions, manual) ==
    LET keyList == SortedKeys(DOMAIN base.m \cup DOMAIN main.m \cup DOMAIN ws.m)
        result(r) == [merged |-> mergedResult(base, r.merged), conflicts |-> r.conflicts,
                      acc |-> r.merged]
    IN  result(mergeFields(keyList, rel, base, main, ws, resolutions, manual,
                           [merged |-> << >>, conflicts |-> << >>]))

(* objectFromPathAndData: [ok, obj] *)
objectFromPathAndData(rel, data) ==
    LET typeName == rel[2]
        id == rel[3]
        gotStr(k) == IF HasKey(data, k) /\ KindOf(data[k]) = "str" THEN data[k][2] ELSE << >>
        withID == IF HasKey(data, "_id") THEN data ELSE MapPut(data, "_id", StrV(CharsOf(id)))
        withType == IF HasKey(data, "_type") THEN withID
                    ELSE MapPut(withID, "_type", StrV(CharsOf(typeName)))
        bad == [ok |-> FALSE, obj |-> [ID |-> "", Type |-> "", Data |-> << >>, Path |-> ""]]
    IN  IF Len(rel) # 4 \/ rel[1] # "data" \/ rel[4] # ".yaml" THEN bad
        ELSE IF gotStr("_id") # << >> /\ gotStr("_id") # CharsOf(id) THEN bad
        ELSE IF gotStr("_type") # << >> /\ gotStr("_type") # CharsOf(typeName) THEN bad
        ELSE [ok |-> TRUE, obj |-> [ID |-> id, Type |-> typeName, Data |-> withType, Path |-> PathString(rel)]]

(***************************************************************************)
(* Repository state.                                                       *)
(*   commits      the commits of the repository in creation order; a       *)
(*                commit is [tree, parent] and its id is its index         *)
(*                (parent 0: the root commit)                              *)
(*   main         the commit branch main points to                         *)
(*   trunk        the trunk checkout r.Root: [files, dataDir]              *)
(*   trunkBranch  what `git rev-parse --abbrev-ref HEAD` prints in the     *)
(*                trunk checkout: "main", or "HEAD" when detached          *)
(*   ws           per workspace name: [dir, files, index, dataDir,         *)
(*                branch]; dir tells whether <workspaceRoot>/<name>        *)
(*                exists, index is what is staged in the checkout, branch  *)
(*                is the commit workspace/<name> points to, 0 when the     *)
(*                branch does not exist                                    *)
(*   lastResult   what the last call returned, with the values of its      *)
(*                local variables that the properties refer to             *)
(*   edits        number of edits made to working directories              *)
(*   mu           the goroutine that holds r.mu, NoHolder when it is free   *)
(*   calls        per goroutine: the call it is executing, the statement   *)
(*                it has reached and the call's local variables            *)
(***************************************************************************)
VARIABLES commits, main, trunk, trunkBranch, ws, lastResult, edits, mu, calls

vars == <<commits, main, trunk, trunkBranch, ws, lastResult, edits, mu, calls>>

Names == {"w1", "w2"}

(* the workspace the callers of the larger interfaces work with *)
CallNames == {"w1"}

EmptyTree == [p \in Paths |-> NoFile]
NoWorkspace ==
    [dir |-> FALSE, files |-> EmptyTree, index |-> EmptyTree, dataDir |-> FALSE, branch |-> 0]

Tree(c) == commits[c].tree

BranchForWorkspace(name) == "workspace/" \o name

NoResult ==
    [op |-> "none", name |-> "", err |-> "", Merged |-> FALSE, Message |-> "",
     Changed |-> << >>, Conflicts |-> << >>, MergedFiles |-> 0,
     acc |-> << >>, validated |-> << >>, issues |-> << >>, log |-> << >>]

(* the goroutines that call into the repository handle *)
Procs == {"p1", "p2"}

NoHolder == "none"

(* a goroutine outside any call: res is what its last call returned, n the *)
(* number of calls it has made, saw the number of the other goroutine's    *)
(* call that was running when the last call began (0: none)                *)
Idle ==
    [pc |-> "idle", op |-> "none", name |-> "", n |-> 0, saw |-> 0,
     changed |-> << >>, ctx |-> << >>, res |-> NoResult]

(* ChangedEntries(repoPath): the paths `git status --porcelain` lists for  *)
(* a checkout with the given files and index whose HEAD has the given      *)
(* tree: staged or not, a path is listed when the three do not agree       *)
ChangedEntries(files, index, head) ==
    SelectSeq(SortedPaths, LAMBDA p : files[p] # index[p] \/ index[p] # head[p])

(* ChangedFiles(repoPath) of a checkout with nothing staged *)
ChangedFiles(files, head) == ChangedEntries(files, head, head)

(* DiffWorkspaceDataFiles(branch), for a branch at commit bc *)
DiffWorkspaceDataFiles(bc) ==
    SelectSeq(SortedPaths,
              LAMBDA p : Tree(main)[p] # Tree(bc)[p] /\ p[1] = "data" /\ p[Len(p)] = ".yaml")

RECURSIVE Ancestors(_)
Ancestors(c) == IF c = 0 THEN {} ELSE {c} \cup Ancestors(commits[c].parent)

(* mergeBase(a, b): [ok, sha] *)
mergeBase(a, b) ==
    LET common == Ancestors(a) \cap Ancestors(b)
    IN  IF common = {} THEN [ok |-> FALSE, sha |-> 0]
        ELSE [ok |-> TRUE, sha |-> CHOOSE c \in common : \A d \in common : d <= c]

(* readObjectAtRef(ref, relPath): [ok, map] *)
readObjectAtRef(c, rel) ==
    LET object(p) ==
            IF ~p.ok \/ \E k \in DOMAIN p.m : ~normalizeObjectValue(p.m[k])
            THEN [ok |-> FALSE, map |-> NilMap]
            ELSE [ok |-> TRUE, map |-> SomeMap(p.m)]
    IN  IF ~Tree(c)[rel].exists THEN [ok |-> FALSE, map |-> NilMap]
        ELSE object(ParseSimpleYAMLObject(Tree(c)[rel]))

(* a base taken from main itself instead of the merge base *)
baseMapForMain(bc, rel) == readObjectAtRef(main, rel).map

(* the three views of one changed path, as the loop of MergeWorkspace      *)
(* loads them                                                              *)
baseMapFor(bc, rel) ==
    LET at(mb) == readObjectAtRef(IF mb.ok THEN mb.sha ELSE main, rel).map
    IN  at(mergeBase(main, bc))

mergeOneFile(bc, rel, resolutions, manual) ==
    mergeThreeWayObject(rel, baseMapFor(bc, rel), readObjectAtRef(main, rel).map,
                        readObjectAtRef(bc, rel).map, resolutions, manual)

(* backupPaths / restorePaths *)
backupPaths(files, relPaths) ==
    [i \in DOMAIN relPaths |->
        [rel |-> relPaths[i], exists |-> files[relPaths[i]].exists, data |-> files[relPaths[i]]]]

(* restorePaths that rewrites the files that existed and leaves the files  *)
(* that did not exist                                                      *)
restorePathsExistingOnly(files, backups) ==
    [p \in DOMAIN files |->
        IF \E i \in DOMAIN backups : backups[i].rel = p /\ backups[i].exists
        THEN backups[CHOOSE i \in DOMAIN backups : backups[i].rel = p].data
        ELSE files[p]]

RECURSIVE restorePaths(_, _)
restorePaths(files, backups) ==
    IF backups = << >> THEN files
    ELSE LET b == Head(backups)
         IN  restorePaths([files EXCEPT ![b.rel] = IF b.exists THEN b.data ELSE NoFile],
                          Tail(backups))

(* the apply loop of MergeWorkspace: [ok, err, files]; on an error files   *)
(* holds what was written before it                                        *)
RECURSIVE applyMerged(_, _, _)
applyMerged(files, changedFiles, mergedFiles) ==
    IF changedFiles = << >> THEN [ok |-> TRUE, err |-> "", files |-> files]
    ELSE LET rel == Head(changedFiles)
             merged == mergedFiles[rel]
             written(w) ==
                 IF ~w.ok THEN [ok |-> FALSE, err |-> "unsupported field type", files |-> files]
                 ELSE applyMerged(w.files, Tail(changedFiles), mergedFiles)
             write(o) ==
                 IF ~o.ok THEN [ok |-> FALSE, err |-> "identity does not match path", files |-> files]
                 ELSE written(WriteObject(files, o.obj))
         IN  IF merged.nil \/ DOMAIN merged.m = {}
             THEN applyMerged([files EXCEPT ![rel] = NoFile], Tail(changedFiles), mergedFiles)
             ELSE write(objectFromPathAndData(rel, merged.m))

(* a deletion that removes the worktree and keeps the branch *)
deleteWorktreeOnly(w, name) ==
    [w EXCEPT ![name].dir = FALSE, ![name].files = EmptyTree, ![name].index = EmptyTree,
              ![name].dataDir = FALSE]

(* deleteWorkspaceLocked(name): the workspaces after `git worktree remove  *)
(* --force` (when the directory exists) and `git branch -D` (a missing     *)
(* branch is tolerated)                                                    *)
deleteWorkspaceLocked(w, name) == [w EXCEPT ![name] = NoWorkspace]

(***************************************************************************)
(* MergeWorkspace, stage by stage.  A stage takes and returns the context  *)
(* of the call: the repository as the call has changed it so far, the      *)
(* call's local variables, and done once the call has returned.            *)
(***************************************************************************)
mergeStart(name, resolutions, manual, ord) ==
    [done |-> FALSE, commits |-> commits, main |-> main, trunk |-> trunk, ws |-> ws,
     name |-> name, resolutions |-> resolutions, manual |-> manual, ord |-> ord,
     changedFiles |-> << >>, mergedFiles |-> << >>, backups |-> << >>, fail |-> "none",
     res |-> [NoResult EXCEPT !.op = "merge", !.name = name]]

mergeReturn(ctx, res) == [ctx EXCEPT !.done = TRUE, !.res = res]
mergeError(ctx, msg) == mergeReturn(ctx, [ctx.res EXCEPT !.err = msg])

(* restorePaths(r.Root, backups) on the trunk checkout *)
rollback(ctx) ==
    [ctx EXCEPT !.trunk.files = restorePaths(ctx.trunk.files, ctx.backups),
                !.res.log = Append(ctx.res.log, "rollback")]

(* preconditions without the check for uncommitted changes *)
mergePreconditionsDirtyAllowed(ctx) ==
    IF ctx.done THEN ctx
    ELSE IF ~ctx.ws[ctx.name].dir THEN mergeError(ctx, "workspace not found")
    ELSE IF trunkBranch # "main" THEN mergeError(ctx, "main worktree must be on main branch")
    ELSE ctx

(* the workspace must exist; trunk must be on main and clean *)
mergePreconditions(ctx) ==
    IF ctx.done THEN ctx
    ELSE IF ~ctx.ws[ctx.name].dir THEN mergeError(ctx, "workspace not found")
    ELSE IF trunkBranch # "main" THEN mergeError(ctx, "main worktree must be on main branch")
    ELSE IF ChangedEntries(ctx.trunk.files, ctx.trunk.index, Tree(ctx.main)) # << >>
         THEN mergeError(ctx, "main worktree has uncommitted changes")
    ELSE ctx

(* a change set that is not checked for being empty *)
mergeCollectUnchecked(ctx) ==
    IF ctx.done THEN ctx
    ELSE IF ctx.ws[ctx.name].branch = 0 THEN mergeError(ctx, "git diff failed: unknown revision")
    ELSE [ctx EXCEPT !.changedFiles = DiffWorkspaceDataFiles(ctx.ws[ctx.name].branch)]

(* the change set; `git diff main..workspace/<name>` fails without branch  *)
mergeCollect(ctx) ==
    IF ctx.done THEN ctx
    ELSE IF ctx.ws[ctx.name].branch = 0 THEN mergeError(ctx, "git diff failed: unknown revision")
    ELSE LET changedFiles == DiffWorkspaceDataFiles(ctx.ws[ctx.name].branch)
         IN  IF changedFiles = << >>
             THEN mergeReturn(ctx, [ctx.res EXCEPT !.Message = "no changes to merge"])
             ELSE [ctx EXCEPT !.changedFiles = changedFiles]

(* a return with the conflict list after the files without conflicts were  *)
(* applied                                                                 *)
mergeConflictsAfterApply(ctx, conflicts) ==
    mergeReturn([ctx EXCEPT !.trunk.files =
                     applyMerged(ctx.trunk.files,
                                 SelectSeq(ctx.changedFiles, LAMBDA p : p \in DOMAIN ctx.mergedFiles),
                                 ctx.mergedFiles).files],
                [ctx.res EXCEPT !.Changed = ctx.changedFiles, !.Conflicts = conflicts,
                                !.Message = "conflicts require resolution"])

(* the return with the conflict list: nothing has been applied *)
mergeConflicts(ctx, conflicts) ==
    mergeReturn(ctx, [ctx.res EXCEPT !.Changed = ctx.changedFiles, !.Conflicts = conflicts,
                                     !.Message = "conflicts require resolution"])

(* the per-file three-way merge; mergedFiles gets the files without        *)
(* conflicts; conflicts are returned sorted by file and field, which is    *)
(* the order they are found in                                             *)
mergeCompare(ctx) ==
    LET cf == ctx.changedFiles
        compared(perFile) ==
            LET at(rel) == perFile[CHOOSE i \in DOMAIN cf : cf[i] = rel]
                conflicts == FlattenSeq([i \in DOMAIN cf |-> perFile[i].conflicts])
                clean == {rel \in Range(cf) : at(rel).conflicts = << >>}
                next == [ctx EXCEPT !.mergedFiles = [rel \in clean |-> at(rel).merged],
                                    !.res.acc = [rel \in Range(cf) |-> at(rel).acc]]
            IN  IF conflicts # << >> THEN mergeConflicts(next, conflicts) ELSE next
    IN  IF ctx.done THEN ctx
        ELSE compared([i \in DOMAIN cf |->
                          mergeOneFile(ctx.ws[ctx.name].branch, cf[i], ctx.resolutions, ctx.manual)])

(* snapshot, then write or remove every changed path *)
mergeApply(ctx) ==
    LET backups == backupPaths(ctx.trunk.files, ctx.changedFiles)
        after(applied) ==
            LET next == [ctx EXCEPT !.backups = backups, !.trunk.files = applied.files,
                                    !.res.log = ctx.res.log \o <<"backup", "apply">>]
            IN  IF ~applied.ok THEN mergeError(rollback(next), applied.err) ELSE next
    IN  IF ctx.done THEN ctx
        ELSE after(applyMerged(ctx.trunk.files, ctx.changedFiles, ctx.mergedFiles))

(* a validation that lets a single issue pass *)
validationBlocksSeveral(issues) == Len(issues) > 1

validationBlocks(issues) == issues # << >>

(* the full validator on the trunk checkout *)
mergeValidate(ctx) ==
    LET after(issues) ==
            LET next == [ctx EXCEPT !.res.validated = ctx.trunk.files, !.res.issues = issues,
                                    !.res.log = Append(ctx.res.log, "validate")]
            IN  IF validationBlocks(issues)
                THEN mergeError(rollback(next),
                                "merge blocked by validation: " \o IssueString(issues[1]))
                ELSE next
    IN  IF ctx.done THEN ctx ELSE after(ValidateRepository(ctx.trunk, ctx.ord))

(* `git add -A` and `git commit` in the trunk checkout.  The commit fails  *)
(* when the index equals HEAD ("nothing to commit"); fail names the git    *)
(* subprocess of this call that exits with an error for a reason outside   *)
(* the program (a hook, a lock file, a locked worktree).  rollback()       *)
(* restores the files and leaves the index as `git add -A` made it.        *)
mergeCommit(ctx) ==
    LET staged == [ctx EXCEPT !.trunk.index = ctx.trunk.files,
                              !.res.log = Append(ctx.res.log, "add")]
    IN  IF ctx.done THEN ctx
        ELSE IF ctx.fail = "add" THEN mergeError(rollback(ctx), "git add failed")
        ELSE IF staged.trunk.index = ctx.commits[ctx.main].tree
             THEN mergeError(rollback(staged), "git commit failed: nothing to commit")
        ELSE IF ctx.fail = "commit" THEN mergeError(rollback(staged), "git commit failed")
        ELSE [staged EXCEPT !.commits = Append(ctx.commits, [tree |-> ctx.trunk.files, parent |-> ctx.main]),
                            !.main = Len(ctx.commits) + 1,
                            !.res.log = staged.res.log \o <<"commit">>]

mergeDeleteWorkspace(ctx) ==
    IF ctx.done THEN ctx
    ELSE IF ctx.fail = "delete" THEN mergeError(ctx, "git worktree remove failed")
    ELSE mergeReturn([ctx EXCEPT !.ws = deleteWorkspaceLocked(ctx.ws, ctx.name)],
                     [ctx.res EXCEPT !.Merged = TRUE, !.Changed = ctx.changedFiles,
                                     !.MergedFiles = Len(ctx.changedFiles),
                                     !.Message = "merge complete",
                                     !.log = Append(ctx.res.log, "delete")])

MergeWorkspace(name, resolutions, manual, ord) ==
    mergeDeleteWorkspace(mergeCommit(mergeValidate(mergeApply(mergeCompare(mergeCollect(
        mergePreconditions(mergeStart(name, resolutions, manual, ord))))))))

(* MergeWorkspace when the git subprocess named by fail exits with an error *)
MergeWorkspaceGit(name, resolutions, manual, ord, fail) ==
    mergeDeleteWorkspace(mergeCommit(mergeValidate(mergeApply(mergeCompare(mergeCollect(
        mergePreconditions([mergeStart(name, resolutions, manual, ord) EXCEPT !.fail = fail])))))))

(***************************************************************************)
(* Workspace manager.  Each operation returns the repository after the     *)
(* call and the call's result.                                             *)
(***************************************************************************)
ValidNames == {"w1", "w2"}
workspaceNamePattern(name) == name \in ValidNames

Outcome(c, m, t, w, res) == [commits |-> c, main |-> m, trunk |-> t, ws |-> w, res |-> res]

(* CreateWorkspace: `git worktree add -b workspace/<name> <path> main`     *)
(* fails when the branch already exists                                    *)
CreateWorkspace(name) ==
    LET res == [NoResult EXCEPT !.op = "create", !.name = name]
        fail(msg) == Outcome(commits, main, trunk, ws, [res EXCEPT !.err = msg])
    IN  IF ~workspaceNamePattern(name) THEN fail("workspace name is invalid")
        ELSE IF ws[name].dir THEN fail("workspace already exists")
        ELSE IF ws[name].branch # 0 THEN fail("git worktree add failed: branch already exists")
        ELSE Outcome(commits, main, trunk,
                     [ws EXCEPT ![name] = [dir |-> TRUE, files |-> Tree(main),
                                           index |-> Tree(main),
                                           dataDir |-> \E p \in DataPaths : Tree(main)[p].exists,
                                           branch |-> main]],
                     res)

(* a deletion that fails when the branch does not exist *)
DeleteWorkspaceStrict(name) ==
    IF ws[name].branch = 0
    THEN Outcome(commits, main, trunk, ws,
                 [NoResult EXCEPT !.op = "delete", !.name = name,
                                  !.err = "git branch -D failed: branch not found"])
    ELSE Outcome(commits, main, trunk, deleteWorkspaceLocked(ws, name),
                 [NoResult EXCEPT !.op = "delete", !.name = name])

(* DeleteWorkspace(name); the log tells what the call found: the directory *)
(* to remove, the branch to delete                                         *)
DeleteWorkspace(name) ==
    Outcome(commits, main, trunk, deleteWorkspaceLocked(ws, name),
            [NoResult EXCEPT !.op = "delete", !.name = name,
                             !.log = (IF ws[name].dir THEN <<"worktree remove">> ELSE << >>)
                                     \o (IF ws[name].branch # 0 THEN <<"branch -D">>
                                         ELSE <<"branch not found">>)])

(* a save that lets a single issue pass *)
saveBlockedSeveral(issues) == Len(issues) > 1

saveBlocked(issues) == issues # << >>

(* SaveWorkspace(name, message); `git add -A` stages the files of the      *)
(* checkout and `git commit` fails with "nothing to commit" when what is   *)
(* staged equals the tree of the branch                                    *)
SaveWorkspace(name, ord) ==
    LET res == [NoResult EXCEPT !.op = "save", !.name = name]
        w == ws[name]
        changed == ChangedEntries(w.files, w.index, Tree(w.branch))
        fail(wsNow, r, msg) == Outcome(commits, main, trunk, wsNow, [r EXCEPT !.err = msg])
        commit(files, kept, checked) ==
            IF files = Tree(w.branch)
            THEN Outcome(commits, main, trunk, [kept EXCEPT ![name].index = files],
                         [checked EXCEPT !.Changed = changed, !.log = checked.log \o <<"add">>])
            ELSE Outcome(Append(commits, [tree |-> files, parent |-> w.branch]), main, trunk,
                         [kept EXCEPT ![name].index = files, ![name].branch = Len(commits) + 1],
                         [checked EXCEPT !.Changed = changed,
                                         !.log = checked.log \o <<"add", "commit">>])
        validated(files, kept, issues) ==
            LET checked == [res EXCEPT !.validated = files, !.issues = issues,
                                       !.log = <<"rewrite", "validate">>]
            IN  IF saveBlocked(issues)
                THEN fail(kept, checked, "validation failed: " \o IssueString(issues[1]))
                ELSE commit(files, kept, checked)
        rewrote(rewritten) ==
            LET kept == [ws EXCEPT ![name].files = rewritten.files]
            IN  IF ~rewritten.ok
                THEN fail(kept, [res EXCEPT !.log = <<"rewrite">>], rewritten.err)
                ELSE validated(rewritten.files, kept,
                               ValidateRepository([files |-> rewritten.files, dataDir |-> w.dataDir],
                                                  ord))
    IN  IF ~w.dir THEN fail(ws, res, "workspace not found")
        ELSE IF changed = << >> THEN fail(ws, res, "no changes to save")
        ELSE rewrote(RewriteCanonicalFiles(w.files, changed))

(* what ValidateRepository reports for a root that does not exist *)
MissingRootIssues ==
    <<Issue("layout", "data", "", "missing data directory"),
      Issue("layout", "config", "", "missing config directory"),
      Issue("schema", "", "", "missing schema directory")>>

(* a restore that reports success for a workspace without checkout *)
RestoreObjectLenient(workspace, rel) ==
    Outcome(commits, main, trunk, ws, [NoResult EXCEPT !.op = "restore", !.name = workspace])

(* a restore that writes the workspace's file into the trunk checkout *)
RestoreObjectInTrunk(workspace, rel) ==
    IF workspace = "main" \/ ~ws[workspace].dir
    THEN Outcome(commits, main, trunk, ws,
                 [NoResult EXCEPT !.op = "restore", !.name = workspace, !.err = "git checkout failed"])
    ELSE Outcome(commits, main, [trunk EXCEPT !.files[rel] = ws[workspace].files[rel]], ws,
                 [NoResult EXCEPT !.op = "restore", !.name = workspace])

(* RestoreObject(workspace, typeName, id) for rel = data/<type>/<id>.yaml:  *)
(* `git checkout -- rel` takes the file from the index of the checkout;    *)
(* when that fails `git checkout main -- rel` takes it from main and       *)
(* stages it.  git fails in a directory that does not exist.               *)
RestoreObject(workspace, rel) ==
    LET res == [NoResult EXCEPT !.op = "restore", !.name = workspace]
        fail(msg) == Outcome(commits, main, trunk, ws, [res EXCEPT !.err = msg])
    IN  IF workspace = "" \/ workspace = "main" THEN fail("cannot restore in main workspace")
        ELSE IF ~ws[workspace].dir THEN fail("git checkout failed: no such directory")
        ELSE IF ws[workspace].index[rel].exists
        THEN Outcome(commits, main, trunk,
                     [ws EXCEPT ![workspace].files[rel] = ws[workspace].index[rel]],
                     [res EXCEPT !.log = <<"checkout">>])
        ELSE IF Tree(main)[rel].exists
        THEN Outcome(commits, main, trunk,
                     [ws EXCEPT ![workspace].files[rel] = Tree(main)[rel],
                                ![workspace].index[rel] = Tree(main)[rel],
                                ![workspace].dataDir = TRUE],
                     [res EXCEPT !.log = <<"checkout", "checkout main">>])
        ELSE fail("git checkout main failed: pathspec did not match")

(* ListWorkspaces(): the worktrees on workspace/* branches by name, each   *)
(* with its changed files                                                  *)
ListWorkspaces ==
    LET listed == SelectSeq(<<"w1", "w2">>, LAMBDA n : ws[n].dir)
        entry(n) ==
            LET changed == ChangedEntries(ws[n].files, ws[n].index, Tree(ws[n].branch))
            IN  [Name |-> n, Branch |-> BranchForWorkspace(n), Dirty |-> changed # << >>,
                 ChangedFiles |-> changed]
    IN  Outcome(commits, main, trunk, ws,
                [NoResult EXCEPT !.op = "list", !.acc = [i \in DOMAIN listed |-> entry(listed[i])]])

(* ValidateRepository called on the trunk checkout ("main") or on the      *)
(* checkout of a workspace                                                 *)
ValidateCheckout(target, ord) ==
    LET res == [NoResult EXCEPT !.op = "validate", !.name = target]
        done(issues) == Outcome(commits, main, trunk, ws, [res EXCEPT !.issues = issues])
    IN  IF target = "main" THEN done(ValidateRepository(trunk, ord))
        ELSE IF ~ws[target].dir THEN done(MissingRootIssues)
        ELSE done(ValidateRepository([files |-> ws[target].files,
                                      dataDir |-> ws[target].dataDir], ord))

(* the preview directory: trunk's config/ and data/, the files of the      *)
(* workspace's config/ copied over them, and the changed paths taken from  *)
(* the workspace checkout                                                  *)
previewFiles(name, changedFiles) ==
    [p \in Paths |->
        IF p \in Range(changedFiles) \/ (p[1] = "config" /\ ws[name].files[p].exists)
        THEN ws[name].files[p]
        ELSE trunk.files[p]]

(* a preview that builds the merged files in the trunk checkout *)
ValidateMergePreviewInPlace(name, ord, ordPreview) ==
    Outcome(commits, main,
            [trunk EXCEPT !.files = IF ws[name].dir /\ ws[name].branch # 0
                                    THEN previewFiles(name, DiffWorkspaceDataFiles(ws[name].branch))
                                    ELSE @],
            ws, [NoResult EXCEPT !.op = "preview", !.name = name])

(* ValidateMergePreview(name); the log tells how far the call got *)
ValidateMergePreview(name, ord, ordPreview) ==
    LET res == [NoResult EXCEPT !.op = "preview", !.name = name]
        return(r) == Outcome(commits, main, trunk, ws, r)
        preview(changedFiles) ==
            LET tmp == previewFiles(name, changedFiles)
                validated(issues) ==
                    return([res EXCEPT !.Changed = changedFiles, !.validated = tmp,
                                       !.issues = issues,
                                       !.log = <<"workspace", "trunk", "diff", "temp">>])
            IN  IF changedFiles = << >>
                THEN return([res EXCEPT !.log = <<"workspace", "trunk", "diff">>])
                ELSE IF ~trunk.dataDir THEN return([res EXCEPT !.err = "copy data: no such directory"])
                ELSE validated(ValidateRepository([files |-> tmp, dataDir |-> TRUE], ordPreview))
        checked(wsIssues) ==
            IF wsIssues # << >>
            THEN return([res EXCEPT !.issues = wsIssues, !.log = <<"workspace">>])
            ELSE IF ChangedEntries(trunk.files, trunk.index, Tree(main)) # << >>
            THEN return([res EXCEPT !.issues = <<Issue("merge-preview", "", "",
                                          "main has uncommitted changes; cannot preview merge")>>,
                                    !.log = <<"workspace", "trunk">>])
            ELSE IF ws[name].branch = 0 THEN return([res EXCEPT !.err = "git diff failed: unknown revision"])
            ELSE preview(DiffWorkspaceDataFiles(ws[name].branch))
    IN  IF ~ws[name].dir THEN return([res EXCEPT !.err = "workspace not found"])
        ELSE checked(ValidateRepository([files |-> ws[name].files, dataDir |-> ws[name].dataDir],
                                        ord))

(***************************************************************************)
(* Inputs of the model.                                                    *)
(***************************************************************************)
TeamData(nameChars) ==
    [f \in {"_id", "_type", "name"} |->
        CASE f = "_id" -> StrV(CharsOf("u1"))
          [] f = "_type" -> StrV(CharsOf("team"))
          [] f = "name" -> StrV(nameChars)]

TeamNoName == [f \in {"_id", "_type"} |-> IF f = "_id" THEN StrV(CharsOf("u1")) ELSE StrV(CharsOf("team"))]

ServiceData ==
    [f \in {"_id", "_type", "teamId"} |->
        CASE f = "_id" -> StrV(CharsOf("u2"))
          [] f = "_type" -> StrV(CharsOf("service"))
          [] f = "teamId" -> StrV(CharsOf("u1"))]

(* the objects the web form writes (handleObjectWrite): identity from the  *)
(* URL, the schema's fields that were filled in.  Each workspace of the    *)
(* model has its own drafts.                                               *)
WebObject(type, id, data) == [ID |-> id, Type |-> type, Data |-> data, Path |-> ""]

WebObjects(name) ==
    IF name = "w1"
    THEN {WebObject("service", "u2", ServiceData)}
    ELSE {WebObject("team", "u1", TeamData(<<"c">>)), WebObject("team", "u1", TeamNoName)}

(* the objects deleted through the web (handleObjectDelete) *)
WebDeletes(name) == IF name = "w1" THEN {TeamRel} ELSE {}

(* files written by hand into a workspace checkout, as a map from path to  *)
(* bytes: the team with its name in single quotes (not canonical) together *)
(* with a new service, and the team with a name the parser rejects         *)
HandEdits(name) ==
    IF name = "w1"
    THEN {[p \in {TeamRel, ServiceRel} |->
              IF p = TeamRel
              THEN FileOf([CanonicalYAML(TeamData(<<"b">>)).bytes.lines
                               EXCEPT !["name"] = ScalarLine(<<"'", "b", "'">>)])
              ELSE CanonicalYAML(ServiceData).bytes]}
    ELSE {[p \in {TeamRel} |->
              FileOf([CanonicalYAML(TeamData(<<"c">>)).bytes.lines
                          EXCEPT !["name"] = ScalarLine(<<"\"", "\\", "q", "\"">>)])]}

(* a file written by hand into the trunk checkout *)
TrunkEdits == {[rel |-> ServiceRel, bytes |-> CanonicalYAML(ServiceData).bytes]}

NameKey == conflictKey(PathString(TeamRel), "name")

(* what the caller of MergeWorkspace passes as resolutions and manual      *)
(* values                                                                  *)
ManualTexts == {<<"d">>, << >>, <<"t", "r", "u", "e", ",", "x">>}

Resolve(choice, text) ==
    [res |-> [k \in {NameKey} |-> choice], manual |-> [k \in {NameKey} |-> text]]

ResolutionInputs ==
    {[res |-> << >>, manual |-> << >>]}
    \cup {Resolve(c, << >>) : c \in {"main", "workspace"}}
    \cup {Resolve("manual", t) : t \in ManualTexts}

(* config/constraints.json as a file of a tree.  The texts of the model    *)
(* are layouts of the same JSON document (they differ in white space), so  *)
(* LoadConstraints gives Constraints for each of them.                     *)
ConstraintsFile(layout) == FileOf([f \in {"constraints"} |-> ScalarLine(layout)])

InitTree ==
    [p \in Paths |->
        CASE p = TeamRel -> CanonicalYAML(TeamData(<<"a">>)).bytes
          [] p = ConstraintsRel -> ConstraintsFile(<<"1">>)
          [] OTHER -> NoFile]

(***************************************************************************)
(* The state machine.                                                      *)
(***************************************************************************)
Init ==
    /\ commits = <<[tree |-> InitTree, parent |-> 0]>>
    /\ main = 1
    /\ trunk = [files |-> InitTree, index |-> InitTree, dataDir |-> TRUE]
    /\ trunkBranch = "main"
    /\ ws = [n \in Names |-> NoWorkspace]
    /\ lastResult = NoResult
    /\ edits = 0
    /\ mu = NoHolder
    /\ calls = [p \in Procs |-> Idle]

(* a call made while no other call is running *)
Install(out) ==
    /\ Len(out.commits) <= MaxCommits
    /\ commits' = out.commits
    /\ main' = out.main
    /\ trunk' = out.trunk
    /\ ws' = out.ws
    /\ lastResult' = out.res
    /\ UNCHANGED <<mu, calls>>

DoCreateWorkspace ==
    \E name \in Names : Install(CreateWorkspace(name)) /\ UNCHANGED <<trunkBranch, edits>>

DoDeleteWorkspace ==
    \E name \in Names : Install(DeleteWorkspace(name)) /\ UNCHANGED <<trunkBranch, edits>>

DoSaveWorkspace ==
    \E name \in Names, ord \in MapOrders :
        Install(SaveWorkspace(name, ord)) /\ UNCHANGED <<trunkBranch, edits>>

DoMergeWorkspace ==
    \E name \in Names, in \in ResolutionInputs, ord \in MapOrders :
        Install(MergeWorkspace(name, in.res, in.manual, ord)) /\ UNCHANGED <<trunkBranch, edits>>

Edited(op, name) ==
    /\ edits < MaxEdits
    /\ edits' = edits + 1
    /\ lastResult' = [NoResult EXCEPT !.op = op, !.name = name]
    /\ UNCHANGED <<mu, calls>>

(* handleObjectWrite: WriteObject into the checkout of an existing         *)
(* workspace                                                               *)
DoWriteObject ==
    \E name \in Names : \E obj \in WebObjects(name) :
        /\ ws[name].dir
        /\ WriteObject(ws[name].files, obj).ok
        /\ ws' = [ws EXCEPT ![name].files = WriteObject(ws[name].files, obj).files,
                            ![name].dataDir = TRUE]
        /\ Edited("write", name)
        /\ UNCHANGED <<commits, main, trunk, trunkBranch>>

(* handleObjectDelete *)
DoDeleteObject ==
    \E name \in Names : \E rel \in WebDeletes(name) :
        /\ ws[name].dir
        /\ ws[name].files[rel].exists
        /\ ws' = [ws EXCEPT ![name].files = DeleteObject(ws[name].files, PathType(rel), PathID(rel))]
        /\ Edited("remove", name)
        /\ UNCHANGED <<commits, main, trunk, trunkBranch>>

(* a file of a workspace checkout edited outside the application *)
HandEditWorkspace ==
    \E name \in Names : \E e \in HandEdits(name) :
        /\ ws[name].dir
        /\ \E p \in DOMAIN e : ws[name].files[p] # e[p]
        /\ ws' = [ws EXCEPT ![name].files = [p \in Paths |-> IF p \in DOMAIN e THEN e[p] ELSE @[p]],
                            ![name].dataDir = TRUE]
        /\ Edited("edit", name)
        /\ UNCHANGED <<commits, main, trunk, trunkBranch>>

(* the trunk checkout edited outside the application, and put back *)
HandEditTrunk ==
    /\ \/ \E e \in TrunkEdits : trunk' = [trunk EXCEPT !.files[e.rel] = e.bytes]
       \/ trunk.files # Tree(main) /\ trunk' = [trunk EXCEPT !.files = Tree(main)]
    /\ trunk' # trunk
    /\ Edited("edit", "main")
    /\ UNCHANGED <<commits, main, trunkBranch, ws>>

(* `git checkout --detach` and `git checkout main` in the trunk checkout *)
SwitchTrunkBranch ==
    /\ trunkBranch' = IF trunkBranch = "main" THEN "HEAD" ELSE "main"
    /\ Edited("checkout", "main")
    /\ UNCHANGED <<commits, main, trunk, ws>>

Next ==
    \/ DoCreateWorkspace
    \/ DoDeleteWorkspace
    \/ DoSaveWorkspace
    \/ DoMergeWorkspace
    \/ DoWriteObject
    \/ DoDeleteObject
    \/ HandEditWorkspace
    \/ HandEditTrunk
    \/ SwitchTrunkBranch

Spec == Init /\ [][Next]_vars

(***************************************************************************)
(* The calls that complete the interface of the repository handle: the     *)
(* restore of one object and the calls that only read.                     *)
(***************************************************************************)
DoRestoreObject ==
    \E workspace \in Names \cup {"main"}, rel \in DataPaths :
        Install(RestoreObject(workspace, rel)) /\ UNCHANGED <<trunkBranch, edits>>

DoListWorkspaces == Install(ListWorkspaces) /\ UNCHANGED <<trunkBranch, edits>>

DoValidateRepository ==
    \E target \in Names \cup {"main"}, ord \in MapOrders :
        Install(ValidateCheckout(target, ord)) /\ UNCHANGED <<trunkBranch, edits>>

DoValidateMergePreview ==
    \E name \in Names, ord \in MapOrders, ordPreview \in MapOrders :
        Install(ValidateMergePreview(name, ord, ordPreview)) /\ UNCHANGED <<trunkBranch, edits>>

(* CreateWorkspace for the names of CallNames; the other calls take every  *)
(* name                                                                    *)
DoCreateCallName ==
    \E name \in CallNames : Install(CreateWorkspace(name)) /\ UNCHANGED <<trunkBranch, edits>>

NextAll ==
    \/ DoCreateCallName
    \/ DoDeleteWorkspace
    \/ DoSaveWorkspace
    \/ DoMergeWorkspace
    \/ DoWriteObject
    \/ DoDeleteObject
    \/ HandEditWorkspace
    \/ HandEditTrunk
    \/ SwitchTrunkBranch
    \/ DoRestoreObject
    \/ DoListWorkspaces
    \/ DoValidateRepository
    \/ DoValidateMergePreview

SpecAll == Init /\ [][NextAll]_vars

(***************************************************************************)
(* The three-way merge of one object on its own: every combination of a    *)
(* base, a main and a workspace version of data/team/u1.yaml, with the     *)
(* resolutions of a caller.  lastResult holds the arguments and, after the *)
(* call, what mergeThreeWayObject returned.                                *)
(***************************************************************************)
SeqAB == SeqV(<<StrV(<<"a">>), StrV(<<"b">>)>>)
SeqBA == SeqV(<<StrV(<<"b">>), StrV(<<"a">>)>>)

(* the versions of the object: no file (a nil map), or a map with or       *)
(* without _id and with or without a name                                  *)
ObjectVersions ==
    {NilMap}
    \cup {SomeMap([f \in ids \cup names |-> IF f = "_id" THEN StrV(CharsOf("u1")) ELSE v]) :
              ids \in {{}, {"_id"}}, names \in {{}, {"name"}},
              v \in {Null, StrV(<<"a">>), StrV(<<"b">>), SeqAB, SeqBA}}

(* the keys as a caller holds them, e.g. in the fields of an HTML form *)
FormKeys == {"data/team/u1.yaml::name", "data/team/u1.yaml::_id"}

FormTexts ==
    {<<"d">>, << >>, <<" ">>, <<"n", "u", "l", "l">>, <<"a", ",", " ", "b">>, <<"7">>,
     <<"\"", "\\", "q", "\"">>}

ObjectResolutions ==
    {[res |-> << >>, manual |-> << >>]}
    \cup {[res |-> [k \in FormKeys |-> c], manual |-> << >>] : c \in {"main", "workspace", "theirs"}}
    \cup {[res |-> [k \in FormKeys |-> "manual"], manual |-> [k \in FormKeys |-> t]] :
              t \in FormTexts}

InitMerge ==
    /\ commits = <<[tree |-> InitTree, parent |-> 0]>>
    /\ main = 1
    /\ trunk = [files |-> InitTree, index |-> InitTree, dataDir |-> TRUE]
    /\ trunkBranch = "main"
    /\ ws = [n \in Names |-> NoWorkspace]
    /\ edits = 0
    /\ mu = NoHolder
    /\ calls = [p \in Procs |-> Idle]
    /\ \E b \in ObjectVersions, m \in ObjectVersions, w \in ObjectVersions,
          in \in ObjectResolutions :
           lastResult = [op |-> "arguments", base |-> b, main |-> m, ws |-> w,
                         resolutions |-> in.res, manual |-> in.manual]

DoMergeThreeWayObject ==
    /\ lastResult.op = "arguments"
    /\ lastResult' = [op |-> "mergeThreeWayObject", base |-> lastResult.base,
                      main |-> lastResult.main, ws |-> lastResult.ws,
                      resolutions |-> lastResult.resolutions, manual |-> lastResult.manual,
                      out |-> mergeThreeWayObject(TeamRel, lastResult.base, lastResult.main,
                                                  lastResult.ws, lastResult.resolutions,
                                                  lastResult.manual)]
    /\ UNCHANGED <<commits, main, trunk, trunkBranch, ws, edits, mu, calls>>

NextMerge == DoMergeThreeWayObject

SpecMerge == InitMerge /\ [][NextMerge]_vars

(***************************************************************************)
(* Concurrent callers.  Every goroutine of Procs calls CreateWorkspace,    *)
(* DeleteWorkspace, SaveWorkspace and MergeWorkspace; a step is what a     *)
(* call executes between two points where the other goroutine or an edit   *)
(* of a checkout can come in.  r.mu.Lock() is a step of its own.           *)
(***************************************************************************)
InvalidNames == {"a/b"}

Other(p) == CHOOSE q \in Procs : q # p

CanCall(p) == calls[p].pc = "idle" /\ calls[p].n < MaxCalls

(* the local state of a call of p that begins now *)
Began(p, op, name) ==
    [Idle EXCEPT !.op = op, !.name = name, !.n = calls[p].n + 1,
                 !.saw = IF calls[Other(p)].pc # "idle" THEN calls[Other(p)].n ELSE 0,
                 !.res = [NoResult EXCEPT !.op = op, !.name = name]]

Goto(c, pc) == [c EXCEPT !.pc = pc]
Return(c, res) == [c EXCEPT !.pc = "idle", !.changed = << >>, !.ctx = << >>, !.res = res]
Fail(c, msg) == Return(c, [c.res EXCEPT !.err = msg])

(* goroutine p has executed a step that leaves its call as c; lastResult   *)
(* follows the calls that return                                           *)
Stepped(p, c) ==
    /\ calls' = [calls EXCEPT ![p] = c]
    /\ lastResult' = IF c.pc = "idle" THEN c.res ELSE lastResult

(* r.mu.Lock(): the statement after the lock of each operation *)
AfterLock ==
    [l \in {"createLock", "saveLock", "mergeLock"} |->
        CASE l = "createLock" -> "createAdd"
          [] l = "saveLock" -> "saveCommit"
          [] l = "mergeLock" -> "mergeApply"]

Lock(p) ==
    /\ calls[p].pc \in DOMAIN AfterLock
    /\ mu = NoHolder
    /\ mu' = p
    /\ Stepped(p, Goto(calls[p], AfterLock[calls[p].pc]))
    /\ UNCHANGED <<commits, main, trunk, trunkBranch, ws, edits>>

(* CreateWorkspace up to the lock: the name and the directory are checked *)
CreateCheck(p) ==
    \E name \in CallNames \cup InvalidNames :
        /\ CanCall(p)
        /\ LET c == Began(p, "create", name)
           IN  Stepped(p, IF ~workspaceNamePattern(name) THEN Fail(c, "workspace name is invalid")
                          ELSE IF ws[name].dir THEN Fail(c, "workspace already exists")
                          ELSE Goto(c, "createLock"))
        /\ UNCHANGED <<commits, main, trunk, trunkBranch, ws, edits, mu>>

(* a worktree add that resets a branch that exists (`-B`) *)
worktreeAddForce(w, name) ==
    [ok |-> TRUE, err |-> "",
     ws |-> [w EXCEPT ![name] = [dir |-> TRUE, files |-> Tree(main), index |-> Tree(main),
                                 dataDir |-> \E p \in DataPaths : Tree(main)[p].exists,
                                 branch |-> main]]]

(* `git worktree add -b workspace/<name> <path> main`: [ok, err, ws] *)
worktreeAdd(w, name) ==
    IF w[name].branch # 0
    THEN [ok |-> FALSE, err |-> "git worktree add failed: branch already exists", ws |-> w]
    ELSE IF w[name].dir
    THEN [ok |-> FALSE, err |-> "git worktree add failed: path already exists", ws |-> w]
    ELSE [ok |-> TRUE, err |-> "",
          ws |-> [w EXCEPT ![name] = [dir |-> TRUE, files |-> Tree(main), index |-> Tree(main),
                                      dataDir |-> \E p \in DataPaths : Tree(main)[p].exists,
                                      branch |-> main]]]

CreateAdd(p) ==
    /\ calls[p].pc = "createAdd"
    /\ LET added(a) ==
               /\ ws' = a.ws
               /\ Stepped(p, IF a.ok THEN Return(calls[p], calls[p].res) ELSE Fail(calls[p], a.err))
       IN  added(worktreeAdd(ws, calls[p].name))
    /\ mu' = NoHolder
    /\ UNCHANGED <<commits, main, trunk, trunkBranch, edits>>

(* DeleteWorkspace: the lock is its first statement *)
DeleteLock(p) ==
    \E name \in CallNames :
        /\ CanCall(p)
        /\ mu = NoHolder
        /\ mu' = p
        /\ Stepped(p, Goto(Began(p, "delete", name), "deleteWorktree"))
        /\ UNCHANGED <<commits, main, trunk, trunkBranch, ws, edits>>

(* `git worktree remove --force`, when the directory exists *)
DeleteWorktree(p) ==
    /\ calls[p].pc = "deleteWorktree"
    /\ ws' = [ws EXCEPT ![calls[p].name].dir = FALSE, ![calls[p].name].files = EmptyTree,
                        ![calls[p].name].index = EmptyTree, ![calls[p].name].dataDir = FALSE]
    /\ Stepped(p, Goto(calls[p], "deleteBranch"))
    /\ UNCHANGED <<commits, main, trunk, trunkBranch, edits, mu>>

(* `git branch -D`, where "not found" is not an error *)
DeleteBranch(p) ==
    /\ calls[p].pc = "deleteBranch"
    /\ ws' = [ws EXCEPT ![calls[p].name].branch = 0]
    /\ Stepped(p, Return(calls[p], calls[p].res))
    /\ mu' = NoHolder
    /\ UNCHANGED <<commits, main, trunk, trunkBranch, edits>>

(* SaveWorkspace up to the rewrite: the directory and the changed files *)
SaveCheck(p) ==
    \E name \in CallNames :
        /\ CanCall(p)
        /\ LET c == Began(p, "save", name)
               changed == ChangedEntries(ws[name].files, ws[name].index, Tree(ws[name].branch))
           IN  Stepped(p, IF ~ws[name].dir THEN Fail(c, "workspace not found")
                          ELSE IF changed = << >> THEN Fail(c, "no changes to save")
                          ELSE [Goto(c, "saveRewrite") EXCEPT !.changed = changed])
        /\ UNCHANGED <<commits, main, trunk, trunkBranch, ws, edits, mu>>

SaveRewrite(p) ==
    /\ calls[p].pc = "saveRewrite"
    /\ LET c == [calls[p] EXCEPT !.res.log = <<"rewrite">>]
           rewrote(rewritten) ==
               /\ ws' = [ws EXCEPT ![c.name].files = rewritten.files]
               /\ Stepped(p, IF ~rewritten.ok THEN Fail(c, rewritten.err)
                             ELSE Goto(c, "saveValidate"))
       IN  rewrote(RewriteCanonicalFiles(ws[c.name].files, c.changed))
    /\ UNCHANGED <<commits, main, trunk, trunkBranch, edits, mu>>

SaveValidate(p) ==
    \E ord \in MapOrders :
        /\ calls[p].pc = "saveValidate"
        /\ LET w == ws[calls[p].name]
               validated(issues) ==
                   LET c == [calls[p] EXCEPT !.res.validated = w.files, !.res.issues = issues,
                                             !.res.log = <<"rewrite", "validate">>]
                   IN  Stepped(p, IF saveBlocked(issues)
                                  THEN Fail(c, "validation failed: " \o IssueString(issues[1]))
                                  ELSE Goto(c, "saveLock"))
           IN  IF w.dir
               THEN validated(ValidateRepository([files |-> w.files, dataDir |-> w.dataDir], ord))
               ELSE validated(MissingRootIssues)
        /\ UNCHANGED <<commits, main, trunk, trunkBranch, ws, edits, mu>>

(* `git add -A` and `git commit` in the workspace checkout *)
SaveCommit(p) ==
    /\ calls[p].pc = "saveCommit"
    /\ Len(commits) < MaxCommits
    /\ LET c == calls[p]
           w == ws[c.name]
           res == [c.res EXCEPT !.Changed = c.changed]
       IN  IF ~w.dir
           THEN /\ Stepped(p, Fail(c, "git add failed: no such directory"))
                /\ UNCHANGED <<commits, ws>>
           ELSE IF w.files = Tree(w.branch)
           THEN /\ Stepped(p, Return(c, [res EXCEPT !.log = c.res.log \o <<"add">>]))
                /\ ws' = [ws EXCEPT ![c.name].index = w.files]
                /\ UNCHANGED commits
           ELSE /\ Stepped(p, Return(c, [res EXCEPT !.log = c.res.log \o <<"add", "commit">>]))
                /\ commits' = Append(commits, [tree |-> w.files, parent |-> w.branch])
                /\ ws' = [ws EXCEPT ![c.name].index = w.files, ![c.name].branch = Len(commits) + 1]
    /\ mu' = NoHolder
    /\ UNCHANGED <<main, trunk, trunkBranch, edits>>

(* the local variables of a MergeWorkspace call, and the call as it        *)
(* continues on the repository it finds                                    *)
Stored(ctx) == [ctx EXCEPT !.commits = << >>, !.main = 0, !.trunk = << >>, !.ws = << >>]
Refreshed(ctx) == [ctx EXCEPT !.commits = commits, !.main = main, !.trunk = trunk, !.ws = ws]

(* MergeWorkspace up to the lock: the directory is checked *)
MergeStat(p) ==
    \E name \in CallNames :
        /\ CanCall(p)
        /\ LET c == Began(p, "merge", name)
           IN  Stepped(p, IF ~ws[name].dir THEN Fail(c, "workspace not found")
                          ELSE [Goto(c, "mergeLock") EXCEPT
                                    !.ctx = Stored(mergeStart(name, << >>, << >>, "asc"))])
        /\ UNCHANGED <<commits, main, trunk, trunkBranch, ws, edits, mu>>

(* the checks MergeWorkspace makes under the lock: trunk is on main and    *)
(* has no uncommitted changes                                              *)
mergeTrunkChecks(ctx) ==
    IF trunkBranch # "main" THEN mergeError(ctx, "main worktree must be on main branch")
    ELSE IF ChangedEntries(ctx.trunk.files, ctx.trunk.index, Tree(ctx.main)) # << >>
         THEN mergeError(ctx, "main worktree has uncommitted changes")
    ELSE ctx

(* a call that has run up to ctx returns, or goes on at the given statement *)
MergeStepped(p, ctx, pc) ==
    /\ commits' = ctx.commits
    /\ main' = ctx.main
    /\ trunk' = ctx.trunk
    /\ ws' = ctx.ws
    /\ Stepped(p, IF ctx.done THEN Return(calls[p], ctx.res)
                  ELSE [Goto(calls[p], pc) EXCEPT !.ctx = Stored(ctx)])
    /\ mu' = IF ctx.done THEN NoHolder ELSE mu

(* from the checks to the validation of what was applied *)
MergeApply(p) ==
    \E ord \in MapOrders :
        /\ calls[p].pc = "mergeApply"
        /\ MergeStepped(p, mergeValidate(mergeApply(mergeCompare(mergeCollect(
                               mergeTrunkChecks([Refreshed(calls[p].ctx) EXCEPT !.ord = ord]))))),
                        "mergeCommit")
        /\ UNCHANGED <<trunkBranch, edits>>

(* the commit on main and the deletion of the workspace *)
MergeCommit(p) ==
    /\ calls[p].pc = "mergeCommit"
    /\ Len(commits) < MaxCommits
    /\ MergeStepped(p, mergeDeleteWorkspace(mergeCommit(Refreshed(calls[p].ctx))), "idle")
    /\ UNCHANGED <<trunkBranch, edits>>

InitLock == Init

NextLock ==
    \/ \E p \in Procs :
           \/ Lock(p)
           \/ CreateCheck(p)
           \/ CreateAdd(p)
           \/ DeleteLock(p)
           \/ DeleteWorktree(p)
           \/ DeleteBranch(p)
           \/ SaveCheck(p)
           \/ SaveRewrite(p)
           \/ SaveValidate(p)
           \/ SaveCommit(p)
           \/ MergeStat(p)
           \/ MergeApply(p)
           \/ MergeCommit(p)
    \/ DoWriteObject
    \/ HandEditWorkspace

SpecLock == InitLock /\ [][NextLock]_vars

(***************************************************************************)
(* The dirty-state computation, on the text that `git status --porcelain`  *)
(* prints in a checkout.                                                   *)
(***************************************************************************)
MaxStatusLines == 2

(* strings.HasPrefix and strings.Contains *)
HasPrefix(s, prefix) == Len(prefix) <= Len(s) /\ SubSeq(s, 1, Len(prefix)) = prefix

Contains(s, sub) ==
    \E i \in 1..(Len(s) - Len(sub) + 1) : SubSeq(s, i, i + Len(sub) - 1) = sub

(* parts[len(parts)-1] of strings.Split(s, sep) *)
RECURSIVE LastPart(_, _)
LastPart(s, sep) ==
    IF ~Contains(s, sep)
    THEN s
    ELSE LET at(i) == SubSeq(s, i, i + Len(sep) - 1) = sep
             first == CHOOSE i \in 1..(Len(s) - Len(sep) + 1) :
                          at(i) /\ \A k \in 1..(i - 1) : ~at(k)
         IN  LastPart(SubSeq(s, first + Len(sep), Len(s)), sep)

AppDir == <<".", "w", "o", "r", "k", "t", "r", "e", "e", "f", "o", "u", "n", "d", "r", "y", "/">>
OutputDir == <<"o", "u", "t", "p", "u", "t", "/">>
Arrow == <<" ", "-", ">", " ">>

isIgnoredAppPath(path) == HasPrefix(path, AppDir) \/ HasPrefix(path, OutputDir)

statusFromToken(token) ==
    IF token = <<"?", "?">> THEN "A"
    ELSE IF "D" \in Range(token) THEN "D"
    ELSE IF "A" \in Range(token) THEN "A"
    ELSE "M"

(* the loop of ChangedEntries over the lines of the output *)
StatusEntries(out) ==
    LET lines == SplitOn(TrimSpace(out), "\n")
        entry(line) ==
            IF TrimSpace(line) = << >> \/ Len(line) < 4
            THEN << >>
            ELSE LET statusToken == SubSeq(line, 1, 2)
                     path == LastPart(TrimSpace(SubSeq(line, 4, Len(line))), Arrow)
                 IN  IF isIgnoredAppPath(path)
                     THEN << >>
                     ELSE <<[Path |-> path, Status |-> statusFromToken(statusToken)]>>
    IN  FlattenSeq([i \in DOMAIN lines |-> entry(lines[i])])

(* ChangedFiles on the same output: the sorted paths of the entries *)
StatusFiles(out) == {StatusEntries(out)[i].Path : i \in DOMAIN StatusEntries(out)}

(* the workspace root of the Repository, relative to the repository: the   *)
(* default of OpenRepository or a configured directory                     *)
DefaultRoot == AppDir \o <<"w", "o", "r", "k", "s", "p", "a", "c", "e", "s">>
CustomRoot == <<"w", "s">>
WorkspaceRoots == {DefaultRoot, CustomRoot}

(* the changes a checkout can show, in the order git prints them: tracked  *)
(* paths, then untracked ones; a directory that holds only untracked       *)
(* content, such as the worktrees below the workspace root, is one line    *)
FileA == <<"d", "a", "t", "a", "/", "a", ".", "y", "a", "m", "l">>
FileB == <<"d", "a", "t", "a", "/", "b", ".", "y", "a", "m", "l">>
TrackedTokens ==
    <<<<" ", "M">>, <<"M", " ">>, <<" ", "D">>, <<"D", " ">>, <<"A", " ">>, <<"A", "M">>>>

Change(token, text, to, paths) == [token |-> token, text |-> text, to |-> to, paths |-> paths]

StatusChanges ==
    [i \in 1..Len(TrackedTokens) |-> Change(TrackedTokens[i], FileA, FileA, {FileA})]
    \o <<Change(<<"R", " ">>, FileA \o Arrow \o FileB, FileB, {FileA, FileB})>>
    \o [i \in 1..Len(TrackedTokens) |-> Change(TrackedTokens[i], FileB, FileB, {FileB})]
    \o <<Change(<<"?", "?">>, AppDir, AppDir, {AppDir}),
         Change(<<"?", "?">>, FileA, FileA, {FileA}),
         Change(<<"?", "?">>, FileB, FileB, {FileB}),
         Change(<<"?", "?">>, OutputDir, OutputDir, {OutputDir}),
         Change(<<"?", "?">>, CustomRoot \o <<"/">>, CustomRoot \o <<"/">>, {CustomRoot \o <<"/">>})>>

RECURSIVE Picks(_, _)
Picks(from, n) ==
    IF n = 0
    THEN {<< >>}
    ELSE {<< >>} \cup
         UNION {{<<StatusChanges[i]>> \o rest :
                     rest \in {r \in Picks(i + 1, n - 1) :
                                  \A k \in DOMAIN r : r[k].paths \cap StatusChanges[i].paths = {}}} :
                i \in from..Len(StatusChanges)}

StatusInputs == Picks(1, MaxStatusLines)

(* the output of git status --porcelain for the changes *)
Porcelain(changes) ==
    FlattenSeq([i \in DOMAIN changes |-> changes[i].token \o <<" ">> \o changes[i].text \o <<"\n">>])

InitStatus ==
    /\ commits = <<[tree |-> InitTree, parent |-> 0]>>
    /\ main = 1
    /\ trunk = [files |-> InitTree, index |-> InitTree, dataDir |-> TRUE]
    /\ trunkBranch = "main"
    /\ ws = [n \in Names |-> NoWorkspace]
    /\ edits = 0
    /\ mu = NoHolder
    /\ calls = [p \in Procs |-> Idle]
    /\ \E root \in WorkspaceRoots, changes \in StatusInputs :
           lastResult = [op |-> "status", WorkspaceRoot |-> root, changes |-> changes,
                         out |-> Porcelain(changes)]

DoChangedEntries ==
    /\ lastResult.op = "status"
    /\ lastResult' = [op |-> "ChangedEntries", WorkspaceRoot |-> lastResult.WorkspaceRoot,
                      changes |-> lastResult.changes, out |-> lastResult.out,
                      entries |-> StatusEntries(lastResult.out)]
    /\ UNCHANGED <<commits, main, trunk, trunkBranch, ws, edits, mu, calls>>

NextStatus == DoChangedEntries

SpecStatus == InitStatus /\ [][NextStatus]_vars

(***************************************************************************)
(* The validator on checkouts that hold up to two teams and two services,  *)
(* each file as WriteObject writes it or with a text the parser rejects.   *)
(***************************************************************************)
ValidatePaths == {ServiceRel1, ServiceRel, TeamRel, TeamRel2}

Identity(rel) ==
    [f \in {"_id", "_type"} |->
        IF f = "_id" THEN StrV(CharsOf(PathID(rel))) ELSE StrV(CharsOf(PathType(rel)))]

NameValues == {StrV(<<"a">>), StrV(<<"1">>), NumV(1, 0), StrV(<< >>), Null}
TeamIdValues == {StrV(CharsOf("u1")), StrV(CharsOf("u2")), StrV(<<"u", "9">>), NumV(1, 0), Null}

ObjectFiles(rel) ==
    LET field == IF PathType(rel) = "team" THEN "name" ELSE "teamId"
        other == IF PathType(rel) = "team" THEN "teamId" ELSE "name"
        values == IF PathType(rel) = "team" THEN NameValues ELSE TeamIdValues
        written(data) == CanonicalYAML(data).bytes
    IN  {NoFile, written(Identity(rel))}
        \cup {written(MapPut(Identity(rel), field, v)) : v \in values}
        \cup {written(MapPut(MapPut(Identity(rel), field, StrV(CharsOf("u1"))), other, StrV(<<"x">>)))}
        \cup {FileOf([written(Identity(rel)).lines EXCEPT !["_id"] = ScalarLine(<<"\"", "\\", "q", "\"">>)])}

Checkout(s1, s2, t1, t2) ==
    [files |-> [p \in ValidatePaths |->
                   CASE p = ServiceRel1 -> s1
                     [] p = ServiceRel -> s2
                     [] p = TeamRel -> t1
                     [] p = TeamRel2 -> t2],
     dataDir |-> TRUE]

InitValidate ==
    /\ commits = <<[tree |-> InitTree, parent |-> 0]>>
    /\ main = 1
    /\ trunk = [files |-> InitTree, index |-> InitTree, dataDir |-> TRUE]
    /\ trunkBranch = "main"
    /\ ws = [n \in Names |-> NoWorkspace]
    /\ edits = 0
    /\ mu = NoHolder
    /\ calls = [p \in Procs |-> Idle]
    /\ \E s1 \in ObjectFiles(ServiceRel1), s2 \in ObjectFiles(ServiceRel),
          t1 \in ObjectFiles(TeamRel), t2 \in ObjectFiles(TeamRel2) :
           lastResult = [op |-> "checkout", co |-> Checkout(s1, s2, t1, t2)]

DoValidateObjects ==
    /\ lastResult.op = "checkout"
    /\ \E ord \in MapOrders :
           lastResult' = [op |-> "ValidateRepository", co |-> lastResult.co, ord |-> ord,
                          issues |-> ValidateRepository(lastResult.co, ord)]
    /\ UNCHANGED <<commits, main, trunk, trunkBranch, ws, edits, mu, calls>>

NextValidate == DoValidateObjects

SpecValidate == InitValidate /\ [][NextValidate]_vars

(***************************************************************************)
(* The UI configuration.  A repository is as the init command leaves it,   *)
(* with config/ui.json committed, or was set up without the file; the      *)
(* configuration page of a workspace saves the file into its checkout.     *)
(***************************************************************************)
UIConfigFile(repoName) == FileOf([f \in {"repoName"} |-> ScalarLine(repoName)])

(* SaveUIConfig(root, cfg) on the files of a checkout: [ok, files] *)
SaveUIConfig(files, repoName) ==
    IF TrimSpace(repoName) = << >>
    THEN [ok |-> FALSE, files |-> files]
    ELSE [ok |-> TRUE, files |-> [files EXCEPT ![UIConfigRel] = UIConfigFile(TrimSpace(repoName))]]

(* InitializeRepository: the sample team, config/ui.json with the default  *)
(* name, one commit                                                        *)
InitializedTree == SaveUIConfig(InitTree, <<"r">>).files

RepoNames == {<<"s">>, <<" ", "t">>, <<" ">>}

InitUI ==
    /\ \E tree \in {InitTree, InitializedTree} :
           /\ commits = <<[tree |-> tree, parent |-> 0]>>
           /\ trunk = [files |-> tree, index |-> tree, dataDir |-> TRUE]
    /\ main = 1
    /\ trunkBranch = "main"
    /\ ws = [n \in Names |-> NoWorkspace]
    /\ lastResult = NoResult
    /\ edits = 0
    /\ mu = NoHolder
    /\ calls = [p \in Procs |-> Idle]

(* handleConfigSave: main is read-only; the name of the form is trimmed    *)
(* and saved into the checkout of the workspace                            *)
DoSaveUIConfig ==
    \E name \in Names, repoName \in RepoNames :
        /\ ws[name].dir
        /\ ws' = [ws EXCEPT ![name].files = SaveUIConfig(ws[name].files, repoName).files]
        /\ Edited("config", name)
        /\ UNCHANGED <<commits, main, trunk, trunkBranch>>

NextUI ==
    \/ DoCreateCallName
    \/ DoDeleteWorkspace
    \/ DoSaveUIConfig
    \/ DoWriteObject
    \/ DoSaveWorkspace
    \/ DoMergeWorkspace
    \/ DoValidateRepository

SpecUI == InitUI /\ [][NextUI]_vars

(***************************************************************************)
(* The codec on documents and on objects: a document is parsed and         *)
(* normalized as ParseObjectFile does, emitted by CanonicalYAML and parsed *)
(* again; an object is emitted, parsed and emitted again.                  *)
(***************************************************************************)
ScalarTexts ==
    {<<"a">>,
     <<"\"", "a", "\"">>,
     <<"'", "a", "'">>,
     <<"1">>,
     <<"1", ".", "0">>,
     <<"1", "e", "1">>,
     <<"0", ".", "5">>,
     <<"\"", "1", "\"">>,
     <<"t", "r", "u", "e">>,
     <<"T", "r", "u", "e">>,
     <<"n", "u", "l", "l">>,
     <<"[", "]">>,
     <<"\"", "a", "\\", "x", "2", "0", "#", "b", "\"">>,
     <<"'", "a", " ", "#", "b", "'">>,
     <<"a", " ", "#", "b">>,
     <<"\"", "\\", "q", "\"">>,
     <<"x", " ", "y">>,
     << >>}

ItemTexts ==
    {<<<<"a">>, <<"b">>>>,
     <<<<"a">>, <<"\"", "x", " ", "y", "\"">>>>,
     <<<<"1">>, <<"2", ".", "5">>>>,
     <<<<"a">>, <<"1">>>>,
     <<<<"\"", "a", "\\", "x", "2", "0", "#", "b", "\"">>>>,
     <<<<"n", "u", "l", "l">>>>}

DocumentEntries == {ScalarLine(t) : t \in ScalarTexts} \cup {ListLines(ts) : ts \in ItemTexts}

Documents ==
    {FileOf([k \in {"name"} |-> e]) : e \in DocumentEntries}
    \cup {FileOf([k \in {"name", "team"} |-> IF k = "name" THEN e ELSE f]) :
              e \in DocumentEntries, f \in DocumentEntries}

StringValues ==
    {StrV(<< >>),
     StrV(<<"a">>),
     StrV(<<"x", " ", "y">>),
     StrV(<<"a", " ", "#", "b">>),
     StrV(<<"#", "x">>),
     StrV(<<"t", "r", "u", "e">>),
     StrV(<<"1">>),
     StrV(<<"a", "\"", "b">>),
     StrV(<<"a", "\\", "b">>)}

NumberValues == {NumV(1, 0), NumV(15, -1), NumV(1, -7), NumV(-5, 3), NumV(0, 0)}

FieldValues ==
    StringValues \cup NumberValues \cup {BoolV(TRUE), BoolV(FALSE), Null, SeqV(<< >>)}
    \cup {SeqV(<<a, b>>) : a \in {StrV(<<"a">>), StrV(<<"x", " ", "y">>)}, b \in {StrV(<<"b">>), StrV(<<"a", " ", "#", "b">>)}}
    \cup {SeqV(<<a>>) : a \in NumberValues}

Objects ==
    {[k \in {"name"} |-> v] : v \in FieldValues}
    \cup {[k \in {"name", "team"} |-> IF k = "name" THEN v ELSE w] :
              v \in FieldValues, w \in FieldValues}

(* ParseSimpleYAMLObject followed by normalizeObjectValue on every field:  *)
(* [ok, m]                                                                 *)
parseNormalized(bytes) ==
    LET normalized(p) ==
            IF ~p.ok \/ \E k \in DOMAIN p.m : ~normalizeObjectValue(p.m[k])
            THEN [ok |-> FALSE, m |-> << >>]
            ELSE p
    IN  normalized(ParseSimpleYAMLObject(bytes))

InitCodec ==
    /\ commits = <<[tree |-> InitTree, parent |-> 0]>>
    /\ main = 1
    /\ trunk = [files |-> InitTree, index |-> InitTree, dataDir |-> TRUE]
    /\ trunkBranch = "main"
    /\ ws = [n \in Names |-> NoWorkspace]
    /\ edits = 0
    /\ mu = NoHolder
    /\ calls = [p \in Procs |-> Idle]
    /\ \/ \E d \in Documents : lastResult = [op |-> "document", bytes |-> d]
       \/ \E v \in Objects : lastResult = [op |-> "object", data |-> v]

(* parse, emit, parse: the rewrite of RewriteCanonicalFiles and the read   *)
(* that follows it                                                         *)
DoRewriteDocument ==
    /\ lastResult.op = "document"
    /\ LET result(parsed) ==
               LET emitted == IF parsed.ok THEN CanonicalYAML(parsed.m)
                              ELSE [ok |-> FALSE, bytes |-> NoFile]
               IN  [op |-> "rewritten", bytes |-> lastResult.bytes, parsed |-> parsed,
                    emitted |-> emitted,
                    reparsed |-> IF emitted.ok THEN parseNormalized(emitted.bytes)
                                 ELSE [ok |-> FALSE, m |-> << >>]]
       IN  lastResult' = result(parseNormalized(lastResult.bytes))
    /\ UNCHANGED <<commits, main, trunk, trunkBranch, ws, edits, mu, calls>>

(* emit, parse, emit: WriteObject, the read and the rewrite of the file    *)
DoWriteRead ==
    /\ lastResult.op = "object"
    /\ LET result(emitted) ==
               LET reparsed == IF emitted.ok THEN parseNormalized(emitted.bytes)
                               ELSE [ok |-> FALSE, m |-> << >>]
               IN  [op |-> "written", data |-> lastResult.data, emitted |-> emitted,
                    reparsed |-> reparsed,
                    reemitted |-> IF reparsed.ok THEN CanonicalYAML(reparsed.m)
                                  ELSE [ok |-> FALSE, bytes |-> NoFile]]
       IN  lastResult' = result(CanonicalYAML(lastResult.data))
    /\ UNCHANGED <<commits, main, trunk, trunkBranch, ws, edits, mu, calls>>

NextCodec == DoRewriteDocument \/ DoWriteRead

SpecCodec == InitCodec /\ [][NextCodec]_vars

(***************************************************************************)
(* The object store: WriteObject into an empty data/ directory, then       *)
(* ReadObject of the file it wrote.                                        *)
(***************************************************************************)
StoreIDs == {"", "u1", "u2"}
StoreTypes == {"", "team", "service"}

(* the data of an object: _id and _type present or not, and a name *)
StoreData ==
    {[k \in {"name"} |-> StrV(<<"a">>)]}
    \cup {MapPut([k \in {"name"} |-> StrV(<<"a">>)], "_id", StrV(CharsOf(id))) : id \in UUIDs}
    \cup {MapPut(MapPut([k \in {"name"} |-> n], "_id", StrV(CharsOf(id))), "_type", StrV(CharsOf(t))) :
              n \in {StrV(<<"a">>), NumV(1, 0), Null}, id \in UUIDs, t \in {"team", "service"}}

StoreObjects ==
    {[ID |-> id, Type |-> t, Data |-> d, Path |-> ""] : id \in StoreIDs, t \in StoreTypes, d \in StoreData}

EmptyStore == [p \in ValidatePaths |-> NoFile]

(* ReadObject(repoRoot, typeName, id): [ok, err, data] *)
ReadObject(files, typeName, id) ==
    ParseObjectFile(files[<<"data", typeName, id, ".yaml">>], typeName, id)

InitStore ==
    /\ commits = <<[tree |-> InitTree, parent |-> 0]>>
    /\ main = 1
    /\ trunk = [files |-> InitTree, index |-> InitTree, dataDir |-> TRUE]
    /\ trunkBranch = "main"
    /\ ws = [n \in Names |-> NoWorkspace]
    /\ edits = 0
    /\ mu = NoHolder
    /\ calls = [p \in Procs |-> Idle]
    /\ \E obj \in StoreObjects : lastResult = [op |-> "object", obj |-> obj]

DoWriteObjectRead ==
    /\ lastResult.op = "object"
    /\ LET obj == lastResult.obj
           result(written) ==
               [op |-> "WriteObject", obj |-> obj, written |-> written,
                read |-> IF written.ok THEN ReadObject(written.files, obj.Type, obj.ID)
                         ELSE [ok |-> FALSE, err |-> "", data |-> << >>]]
       IN  lastResult' = result(WriteObject(EmptyStore, obj))
    /\ UNCHANGED <<commits, main, trunk, trunkBranch, ws, edits, mu, calls>>

NextStore == DoWriteObjectRead

SpecStore == InitStore /\ [][NextStore]_vars

(***************************************************************************)
(* Two workspaces that change different fields.  The repository starts     *)
(* with a team and a service that carry the optional fields of their       *)
(* schemas; the web form of w1 renames the team, the form of w2 changes    *)
(* the team's code, the service's tier or (the overlapping case) the       *)
(* team's name.  MergeWorkspace is called without resolutions.             *)
(***************************************************************************)
TeamFields(nameChars, codeChars) ==
    [f \in {"_id", "_type", "name", "code"} |->
        CASE f = "_id" -> StrV(CharsOf("u1"))
          [] f = "_type" -> StrV(CharsOf("team"))
          [] f = "name" -> StrV(nameChars)
          [] f = "code" -> StrV(codeChars)]

ServiceFields(tierChars) ==
    [f \in {"_id", "_type", "teamId", "tier"} |->
        CASE f = "_id" -> StrV(CharsOf("u2"))
          [] f = "_type" -> StrV(CharsOf("service"))
          [] f = "teamId" -> StrV(CharsOf("u1"))
          [] f = "tier" -> StrV(tierChars)]

FieldsTree ==
    [p \in Paths |->
        CASE p = TeamRel -> CanonicalYAML(TeamFields(<<"a">>, <<"c", "1">>)).bytes
          [] p = ServiceRel -> CanonicalYAML(ServiceFields(<<"x">>)).bytes
          [] p = ConstraintsRel -> ConstraintsFile(<<"1">>)
          [] OTHER -> NoFile]

FieldObjects(name) ==
    IF name = "w1"
    THEN {WebObject("team", "u1", TeamFields(<<"b">>, <<"c", "1">>))}
    ELSE {WebObject("team", "u1", TeamFields(<<"a">>, <<"c", "2">>)),
          WebObject("service", "u2", ServiceFields(<<"y">>)),
          WebObject("team", "u1", TeamFields(<<"c">>, <<"c", "1">>))}

InitFields ==
    /\ commits = <<[tree |-> FieldsTree, parent |-> 0]>>
    /\ main = 1
    /\ trunk = [files |-> FieldsTree, index |-> FieldsTree, dataDir |-> TRUE]
    /\ trunkBranch = "main"
    /\ ws = [n \in Names |-> NoWorkspace]
    /\ lastResult = NoResult
    /\ edits = 0
    /\ mu = NoHolder
    /\ calls = [p \in Procs |-> Idle]

(* handleObjectWrite with the forms above *)
DoWriteFields ==
    \E name \in Names : \E obj \in FieldObjects(name) :
        /\ ws[name].dir
        /\ WriteObject(ws[name].files, obj).ok
        /\ ws' = [ws EXCEPT ![name].files = WriteObject(ws[name].files, obj).files,
                            ![name].dataDir = TRUE]
        /\ Edited("write", name)
        /\ UNCHANGED <<commits, main, trunk, trunkBranch>>

(* handleWorkspaceMerge on the first request: no resolutions *)
DoMergeUnresolved ==
    \E name \in Names, ord \in MapOrders :
        Install(MergeWorkspace(name, << >>, << >>, ord)) /\ UNCHANGED <<trunkBranch, edits>>

NextFields ==
    \/ DoCreateWorkspace
    \/ DoWriteFields
    \/ DoSaveWorkspace
    \/ DoMergeUnresolved

SpecFields == InitFields /\ [][NextFields]_vars

(***************************************************************************)
(* A workspace whose configuration is edited.  config/constraints.json of  *)
(* a workspace checkout is rewritten by hand in another layout; Save       *)
(* commits it with `git add -A`.                                           *)
(***************************************************************************)
HandEditConfig ==
    \E name \in Names :
        /\ ws[name].dir
        /\ ws[name].files[ConstraintsRel] # ConstraintsFile(<<"2">>)
        /\ ws' = [ws EXCEPT ![name].files[ConstraintsRel] = ConstraintsFile(<<"2">>)]
        /\ Edited("edit", name)
        /\ UNCHANGED <<commits, main, trunk, trunkBranch>>

NextConfig ==
    \/ DoCreateWorkspace
    \/ HandEditConfig
    \/ DoWriteObject
    \/ DoSaveWorkspace
    \/ DoMergeWorkspace

SpecConfig == Init /\ [][NextConfig]_vars

(***************************************************************************)
(* MergeWorkspace with git subprocesses that can fail.  runGit returns the *)
(* error of the subprocess; which of `git add`, `git commit` and `git      *)
(* worktree remove` fails in a call, if any, is chosen by the environment. *)
(***************************************************************************)
GitFailures == {"none", "add", "commit", "delete"}

DoMergeWorkspaceGit ==
    \E name \in Names, fail \in GitFailures, ord \in MapOrders :
        Install(MergeWorkspaceGit(name, << >>, << >>, ord, fail))
        /\ UNCHANGED <<trunkBranch, edits>>

NextGit ==
    \/ DoCreateWorkspace
    \/ DoWriteObject
    \/ DoDeleteObject
    \/ DoSaveWorkspace
    \/ DoMergeWorkspaceGit

SpecGit == Init /\ [][NextGit]_vars

(***************************************************************************)
(* The merge preview next to the merge.  One workspace deletes the team    *)
(* (DoDeleteObject), the other adds the service that refers to it, a       *)
(* checkout's config/constraints.json may be rewritten; each is saved,     *)
(* previewed and merged without resolutions.                               *)
(***************************************************************************)
PreviewObjects(name) ==
    IF name = "w2" THEN {WebObject("service", "u2", ServiceData)} ELSE {}

DoWriteService ==
    \E name \in Names : \E obj \in PreviewObjects(name) :
        /\ ws[name].dir
        /\ WriteObject(ws[name].files, obj).ok
        /\ ws' = [ws EXCEPT ![name].files = WriteObject(ws[name].files, obj).files,
                            ![name].dataDir = TRUE]
        /\ Edited("write", name)
        /\ UNCHANGED <<commits, main, trunk, trunkBranch>>

NextPreview ==
    \/ DoCreateWorkspace
    \/ DoWriteService
    \/ DoDeleteObject
    \/ HandEditConfig
    \/ DoSaveWorkspace
    \/ DoMergeUnresolved
    \/ DoValidateMergePreview

SpecPreview == Init /\ [][NextPreview]_vars

(***************************************************************************)
(* Properties.  A step of MergeWorkspace or SaveWorkspace is a step whose  *)
(* lastResult' carries the operation; the unprimed variables are the       *)
(* repository before the call.                                             *)
(***************************************************************************)
Logged(r, stage) == stage \in Range(r.log)

Untouched ==
    /\ trunk' = trunk
    /\ commits' = commits
    /\ main' = main
    /\ ws' = ws

MergeStep == lastResult'.op = "merge"
SaveStep == lastResult'.op = "save"

(* the merge of lastResult would have passed the checks that precede the   *)
(* comparison                                                              *)
MergeAdmitted(name) ==
    /\ ws[name].dir
    /\ ws[name].branch # 0
    /\ trunkBranch = "main"
    /\ ChangedEntries(trunk.files, trunk.index, Tree(main)) = << >>

(* C1: when the apply loop or the validation that follows it fails, the   *)
(* trunk checkout is as before the call (files that existed rewritten,     *)
(* files that did not exist removed), no commit is made, the workspace is  *)
(* kept, and the call returns an error: the apply error, or the first      *)
(* issue of the validator.                                                 *)
C1_RollbackOnFailure ==
    [][(MergeStep /\ Logged(lastResult', "apply") /\ ~Logged(lastResult', "add")
                  /\ lastResult'.err # "")
       => /\ Untouched
          /\ ~lastResult'.Merged
          /\ Logged(lastResult', "rollback")
          /\ Logged(lastResult', "validate") =>
                /\ lastResult'.issues # << >>
                /\ lastResult'.err = "merge blocked by validation: "
                                         \o IssueString(lastResult'.issues[1])]_vars

(* a validation failure after the merged files changed the trunk checkout *)
C1_Witness ==
    /\ lastResult.op = "merge"
    /\ lastResult.err # ""
    /\ lastResult.issues # << >>
    /\ Logged(lastResult, "rollback")
    /\ \E p \in Paths : lastResult.validated[p] # trunk.files[p] /\ ~trunk.files[p].exists

(* C2: after MergeWorkspace returned Merged=true, the tree committed to    *)
(* main is the content of the trunk checkout the validator ran on after    *)
(* the apply loop, and the validator returned no issues for it.            *)
C2_MergedIsValidated ==
    (lastResult.op = "merge" /\ lastResult.Merged)
    => /\ Logged(lastResult, "validate")
       /\ lastResult.issues = << >>
       /\ Tree(main) = lastResult.validated
       /\ trunk.files = lastResult.validated
       /\ \A ord \in MapOrders :
              ValidateRepository([files |-> Tree(main), dataDir |-> TRUE], ord) = << >>

C2_Witness ==
    /\ lastResult.op = "merge"
    /\ lastResult.Merged
    /\ Tree(main) # Tree(commits[main].parent)

(* C3: a MergeWorkspace call that returns conflicts has changed no file of *)
(* the trunk checkout, made no commit and kept the workspace, also when    *)
(* other changed files merged without conflict; Merged is false and there  *)
(* is no error.                                                            *)
C3_ConflictsChangeNothing ==
    [][(MergeStep /\ lastResult'.Conflicts # << >>)
       => /\ Untouched
          /\ ~lastResult'.Merged
          /\ lastResult'.err = ""]_vars

(* conflicts reported while another changed file merged without conflict *)
C3_Witness ==
    /\ lastResult.op = "merge"
    /\ lastResult.Conflicts # << >>
    /\ \E i \in DOMAIN lastResult.Changed :
           \A j \in DOMAIN lastResult.Conflicts :
               lastResult.Conflicts[j].File # PathString(lastResult.Changed[i])

(* the three versions of a field as the merge compares them, and the      *)
(* outcome of the comparison                                               *)
Returned == lastResult.op = "mergeThreeWayObject"
FieldNames == DOMAIN lastResult.base.m \cup DOMAIN lastResult.main.m \cup DOMAIN lastResult.ws.m
Ours(f) == FieldOrNil(lastResult.main, f)
Theirs(f) == FieldOrNil(lastResult.ws, f)
Base(f) == FieldOrNil(lastResult.base, f)
InConflict(f) == Ours(f) # Theirs(f) /\ Ours(f) # Base(f) /\ Theirs(f) # Base(f)
Reported(f) == \E i \in DOMAIN lastResult.out.conflicts : lastResult.out.conflicts[i].Field = f

(* the merged map has the field exactly when the version has it, with the  *)
(* version's value                                                         *)
TakenFrom(version, f) ==
    /\ HasKey(lastResult.out.acc, f) <=> HasKey(version.m, f)
    /\ HasKey(version.m, f) => lastResult.out.acc[f] = version.m[f]

(* C4: for every field of base, main or workspace: when ours equals        *)
(* theirs the merge keeps ours if present and else drops the field; else   *)
(* when ours equals base it takes theirs if present and else drops; else   *)
(* when theirs equals base it takes ours if present and else drops; else   *)
(* (no choice being supplied) it reports a conflict for the field.  Values *)
(* are compared deeply and in order; a missing base is the empty map.      *)
C4_ThreeWayDecision ==
    Returned =>
        /\ DOMAIN lastResult.out.acc \subseteq FieldNames
        /\ \A f \in FieldNames :
               IF Ours(f) = Theirs(f) THEN TakenFrom(lastResult.main, f) /\ ~Reported(f)
               ELSE IF Ours(f) = Base(f) THEN TakenFrom(lastResult.ws, f) /\ ~Reported(f)
               ELSE IF Theirs(f) = Base(f) THEN TakenFrom(lastResult.main, f) /\ ~Reported(f)
               ELSE lastResult.resolutions = << >> =>
                        /\ Reported(f)
                        /\ ~HasKey(lastResult.out.acc, f)
                        /\ \A i \in DOMAIN lastResult.out.conflicts :
                               lastResult.out.conflicts[i].Field = f =>
                                   /\ lastResult.out.conflicts[i].Base = Base(f)
                                   /\ lastResult.out.conflicts[i].Main = Ours(f)
                                   /\ lastResult.out.conflicts[i].Workspace = Theirs(f)

(* no base file; the names differ in the order of their items only, which  *)
(* is a conflict; _id is on the workspace side only and is taken           *)
C4_Witness ==
    /\ Returned
    /\ lastResult.base.nil
    /\ lastResult.resolutions = << >>
    /\ Ours("name") = SeqAB
    /\ Theirs("name") = SeqBA
    /\ Reported("name")
    /\ ~HasKey(lastResult.main.m, "_id")
    /\ HasKey(lastResult.out.acc, "_id")

(* what the texts of the form mean: a value, no value (the field is        *)
(* dropped), or a text the scalar rules reject                             *)
FormValue(text) ==
    CASE text = <<"d">> -> [ok |-> TRUE, drop |-> FALSE, v |-> StrV(<<"d">>)]
      [] text = <<"7">> -> [ok |-> TRUE, drop |-> FALSE, v |-> NumV(7, 0)]
      [] text = <<"a", ",", " ", "b">> -> [ok |-> TRUE, drop |-> FALSE, v |-> SeqAB]
      [] text \in {<< >>, <<" ">>, <<"n", "u", "l", "l">>} -> [ok |-> TRUE, drop |-> TRUE, v |-> Null]
      [] OTHER -> [ok |-> FALSE, drop |-> FALSE, v |-> Null]

ValidChoices ==
    {[res |-> c, manual |-> t] : c \in {"main", "workspace"}, t \in {<< >>}}
    \cup {[res |-> "manual", manual |-> t] : t \in {t \in FormTexts : FormValue(t).ok}}

ReportedKeys == {lastResult.out.conflicts[i].Key : i \in DOMAIN lastResult.out.conflicts}

(* the caller's map with the entry of every reported key set to x *)
Chosen(m, x) == [k \in DOMAIN m \cup ReportedKeys |-> IF k \in ReportedKeys THEN x ELSE m[k]]

C6_RemovedIffNoFields ==
    (lastResult.op = "merge" /\ Logged(lastResult, "apply") /\ Logged(lastResult, "validate"))
    => \A i \in DOMAIN lastResult.Changed :
           LET rel == lastResult.Changed[i]
               acc == lastResult.acc[rel]
               file == lastResult.validated[rel]
           IN  /\ ~file.exists <=> DOMAIN acc = {}
               /\ file.exists =>
                      /\ objectFromPathAndData(rel, acc).ok
                      /\ file = CanonicalYAML(objectFromPathAndData(rel, acc).obj.Data).bytes

(* C7: a MergeWorkspace call that returns Merged=true leaves neither the   *)
(* checkout directory nor the branch of the workspace, and it deleted the  *)
(* workspace after it created the merge commit on main; a merge call       *)
(* deletes a workspace in no other case.                                   *)
C7_DeletedAfterCommit ==
    [][MergeStep
       => /\ lastResult'.Merged =>
                /\ ~ws'[lastResult'.name].dir
                /\ ws'[lastResult'.name].branch = 0
                /\ Len(commits') = Len(commits) + 1
                /\ main' = Len(commits')
                /\ commits'[main'].parent = main
                /\ \E i, j \in DOMAIN lastResult'.log :
                       i < j /\ lastResult'.log[i] = "commit" /\ lastResult'.log[j] = "delete"
          /\ ws' # ws => lastResult'.Merged]_vars

C7_Witness ==
    /\ lastResult.op = "merge"
    /\ lastResult.Merged
    /\ ws[lastResult.name] = NoWorkspace

(* C8: when the workspace exists, trunk is on main and clean, and no data  *)
(* file differs between main and the workspace branch, MergeWorkspace      *)
(* returns Merged=false, "no changes to merge" and no changed paths,       *)
(* without error, and changes nothing; the same call made again returns    *)
(* the same result and leaves the same repository.                         *)
C8_NoChangesNoEffect ==
    [][((MergeStep /\ MergeAdmitted(lastResult'.name)
                   /\ DiffWorkspaceDataFiles(ws[lastResult'.name].branch) = << >>)
            => (/\ Untouched
                /\ ~lastResult'.Merged
                /\ lastResult'.Message = "no changes to merge"
                /\ lastResult'.Changed = << >>
                /\ lastResult'.Conflicts = << >>
                /\ lastResult'.err = ""))
       /\ ((MergeStep /\ lastResult.op = "merge" /\ lastResult.Message = "no changes to merge"
                      /\ lastResult'.name = lastResult.name)
            => (Untouched /\ lastResult' = lastResult))]_vars

(* a merge of a workspace whose edits are not committed to its branch *)
C8_Witness ==
    /\ lastResult.op = "merge"
    /\ lastResult.Message = "no changes to merge"
    /\ ws[lastResult.name].dir
    /\ ws[lastResult.name].files # Tree(ws[lastResult.name].branch)

(* C9: MergeWorkspace returns an error and changes nothing in trunk, on    *)
(* main or in the workspaces when the trunk checkout is not on main, when  *)
(* it has uncommitted changes, or when the workspace does not exist.       *)
C9_RefusesOnPreconditions ==
    [][(MergeStep /\ (\/ trunkBranch # "main"
                      \/ ChangedEntries(trunk.files, trunk.index, Tree(main)) # << >>
                      \/ ~ws[lastResult'.name].dir))
       => /\ Untouched
          /\ ~lastResult'.Merged
          /\ lastResult'.Conflicts = << >>
          /\ lastResult'.log = << >>
          /\ lastResult'.err \in {"workspace not found", "main worktree must be on main branch",
                                  "main worktree has uncommitted changes"}]_vars

(* refused for a dirty trunk although the workspace has changes to merge *)
C9_Witness ==
    /\ lastResult.op = "merge"
    /\ lastResult.err = "main worktree has uncommitted changes"
    /\ ws[lastResult.name].branch # 0
    /\ DiffWorkspaceDataFiles(ws[lastResult.name].branch) # << >>

NothingToCommit(name) ==
    LET same(rewritten) == rewritten.ok /\ rewritten.files = Tree(ws[name].branch)
    IN  /\ ws[name].dir
        /\ ws[name].branch # 0
        /\ same(RewriteCanonicalFiles(ws[name].files,
                                      ChangedEntries(ws[name].files, ws[name].index,
                                                     Tree(ws[name].branch))))

(* C11: a SaveWorkspace call on an existing workspace whose checkout has   *)
(* nothing to commit returns no error, creates no commit and returns the   *)
(* changed paths of the checkout, the empty list when the checkout has no  *)
(* uncommitted changes.                                                    *)
C11_NothingToCommitIsNoError ==
    [][(SaveStep /\ NothingToCommit(lastResult'.name) /\ lastResult'.issues = << >>)
       => /\ lastResult'.err = ""
          /\ commits' = commits
          /\ ws'[lastResult'.name].branch = ws[lastResult'.name].branch
          /\ lastResult'.Changed = ChangedEntries(ws[lastResult'.name].files,
                                                  ws[lastResult'.name].index,
                                                  Tree(ws[lastResult'.name].branch))]_vars

(* the step is one of goroutine p's call *)
StepOf(p) == calls'[p] # calls[p]

(* the step changes a checkout, a branch or a commit *)
Mutates == <<commits, main, trunk, ws>>' # <<commits, main, trunk, ws>>

(* C12: every step of a CreateWorkspace, DeleteWorkspace, SaveWorkspace or *)
(* MergeWorkspace call that changes a file of a checkout, a branch or a    *)
(* commit is taken by the goroutine that holds the repository mutex.       *)
C12_MutationsUnderMutex ==
    [][\A p \in Procs : (StepOf(p) /\ Mutates) => mu = p]_vars

(* goroutine p has returned from a call of the operation *)
Returns(p, op) == StepOf(p) /\ calls'[p].pc = "idle" /\ calls'[p].op = op

(* the last calls of the two goroutines overlapped in time *)
Concurrent(p, q) == calls[p].saw = calls[q].n \/ calls[q].saw = calls[p].n

(* C13: a CreateWorkspace call that succeeds had a name that matches the   *)
(* pattern and found neither the directory nor the branch, and it leaves   *)
(* branch workspace/<name> at the tip of main with a checkout of main's    *)
(* tree; a call that is refused changes nothing; of two concurrent calls   *)
(* with the same name at most one succeeds.                                *)
C13_CreateExclusive ==
    [][(\A p \in Procs :
            Returns(p, "create") =>
                LET name == calls'[p].name
                IN  IF calls'[p].res.err = ""
                    THEN /\ workspaceNamePattern(name)
                         /\ ~ws[name].dir
                         /\ ws[name].branch = 0
                         /\ ws'[name].dir
                         /\ ws'[name].branch = main
                         /\ ws'[name].files = Tree(main)
                         /\ \A other \in Names \ {name} : ws'[other] = ws[other]
                         /\ <<commits, main, trunk>>' = <<commits, main, trunk>>
                    ELSE ~Mutates)
       /\ (\A p \in Procs :
               ~(/\ calls'[p].pc = "idle" /\ calls'[p].op = "create"
                 /\ calls'[Other(p)].pc = "idle" /\ calls'[Other(p)].op = "create"
                 /\ calls'[p].name = calls'[Other(p)].name
                 /\ calls'[p].saw = calls'[Other(p)].n
                 /\ calls'[p].res.err = ""
                 /\ calls'[Other(p)].res.err = ""))]_vars

(* two concurrent calls for the same name have passed the check of the     *)
(* directory; the first has created the workspace, the second was refused  *)
(* by git under the lock                                                   *)
C13_Witness ==
    \E p \in Procs :
        /\ calls[p].pc = "idle" /\ calls[p].op = "create"
        /\ calls[Other(p)].pc = "idle" /\ calls[Other(p)].op = "create"
        /\ calls[p].name = calls[Other(p)].name
        /\ Concurrent(p, Other(p))
        /\ calls[p].res.err = ""
        /\ calls[Other(p)].res.err = "git worktree add failed: branch already exists"
        /\ ws[calls[p].name].dir

DeleteStep == lastResult'.op = "delete"

Gone(name) == ~ws[name].dir /\ ws[name].branch = 0
GoneAfter(name) == ~ws'[name].dir /\ ws'[name].branch = 0

(* C15: Merged is reported only by a MergeWorkspace step that creates a    *)
(* commit on main and removes the workspace; while a workspace is gone     *)
(* (merged, deleted or never created) every SaveWorkspace, MergeWorkspace  *)
(* and RestoreObject call for its name fails and changes nothing; it stays *)
(* gone until a CreateWorkspace call for the name succeeds, which forks it *)
(* from the tip of main.                                                   *)
C15_TerminalUntilCreate ==
    [][(lastResult'.Merged =>
            (MergeStep /\ Len(commits') = Len(commits) + 1 /\ main' = Len(commits')
             /\ GoneAfter(lastResult'.name)))
       /\ ((lastResult'.op \in {"save", "merge", "restore"} /\ lastResult'.name \in Names
            /\ Gone(lastResult'.name))
           => (lastResult'.err # "" /\ Untouched))
       /\ (\A n \in Names :
               (Gone(n) /\ ~GoneAfter(n))
               => (lastResult'.op = "create" /\ lastResult'.name = n /\ lastResult'.err = ""
                   /\ ws'[n].branch = main /\ ws'[n].files = Tree(main)))]_vars

(* an object restore refused for a workspace that a merge has removed *)
C15_Witness ==
    /\ lastResult.op = "restore"
    /\ lastResult.name \in Names
    /\ lastResult.err = "git checkout failed: no such directory"
    /\ Gone(lastResult.name)
    /\ main # 1

(* the prefix of the commits is never rewritten *)
CommitsKept == SubSeq(commits', 1, Len(commits)) = commits

(* C16: CreateWorkspace, DeleteWorkspace, SaveWorkspace, RestoreObject,    *)
(* ListWorkspaces, ValidateRepository and ValidateMergePreview leave the   *)
(* commit main points to and the files of the trunk checkout unchanged,    *)
(* for every workspace name; only MergeWorkspace moves main.               *)
C16_TrunkProtected ==
    [][(lastResult'.op \in {"create", "delete", "save", "restore", "list", "validate", "preview"}
        => (main' = main /\ trunk' = trunk /\ CommitsKept))
       /\ (main' # main => MergeStep)]_vars

(* a save that committed on the workspace branch while main and the trunk  *)
(* checkout are as they were initialized                                   *)
C16_Witness ==
    /\ lastResult.op = "save"
    /\ Logged(lastResult, "commit")
    /\ ws[lastResult.name].branch # main
    /\ main = 1
    /\ trunk.files = InitTree

(* C18: a ValidateRepository or ValidateMergePreview call changes no file  *)
(* of the trunk checkout or of a workspace checkout, no branch and no      *)
(* commit, whatever it reports.                                            *)
C18_ValidationReadOnly ==
    [][lastResult'.op \in {"validate", "preview"} => Untouched]_vars

(* a preview that has built and validated the merged files *)
C18_Witness ==
    /\ lastResult.op = "preview"
    /\ Logged(lastResult, "temp")
    /\ lastResult.validated # trunk.files

(* the path lies in the workspace root, or is the directory line that      *)
(* holds the workspace root                                                *)
UnderWorkspaceRoot(path, root) ==
    \/ HasPrefix(path, root \o <<"/">>)
    \/ path # << >> /\ path[Len(path)] = "/" /\ HasPrefix(root \o <<"/">>, path)

IgnoredPath(path, root) == UnderWorkspaceRoot(path, root) \/ HasPrefix(path, OutputDir)

EntriesSkipIgnored ==
    \A i \in DOMAIN lastResult.entries :
        ~IgnoredPath(lastResult.entries[i].Path, lastResult.WorkspaceRoot)

EntriesReportOthers ==
    \A c \in Range(lastResult.changes) :
        ~IgnoredPath(c.to, lastResult.WorkspaceRoot) =>
            \E i \in DOMAIN lastResult.entries :
                /\ lastResult.entries[i].Path = c.to
                /\ lastResult.entries[i].Status \in {"A", "D", "M"}
                /\ c.token = <<"?", "?">> => lastResult.entries[i].Status = "A"

(* C17: the entries that ChangedEntries computes from a status output hold *)
(* no path under the configured workspace root or under output/, and hold  *)
(* every other changed path with status A (untracked or added), D or M     *)
C17_DirtyIgnoresWorkspaceRoot ==
    lastResult.op = "ChangedEntries" => EntriesSkipIgnored /\ EntriesReportOthers

(* the objects on disk of the validated checkout *)
Validated == lastResult.op = "ValidateRepository"
Disk == Range(loadObjectsWithIssues(lastResult.co).objects)
OfType(t) == {o \in Disk : o.Type = t}

FitsProperty(v, prop) ==
    \/ v = Null
    \/ /\ prop.Type = "string"
       /\ KindOf(v) = "str"
       /\ prop.MinLength = -1 \/ Len(v[2]) >= prop.MinLength
       /\ prop.MaxLength = -1 \/ Len(v[2]) <= prop.MaxLength
       /\ prop.Enum = << >> \/ v[2] \in Range(prop.Enum)
    \/ prop.Type \in {"number", "integer"} /\ KindOf(v) = "num" /\ (prop.Type = "integer" => v[3] >= 0)
    \/ prop.Type = "boolean" /\ KindOf(v) = "bool"
    \/ prop.Type = "array" /\ KindOf(v) = "seq"

SchemaHolds ==
    \A o \in Disk :
        /\ o.Type \in DOMAIN Schemas
        /\ \A f \in DOMAIN o.Data \ {"_id", "_type"} :
               /\ f \in DOMAIN Schemas[o.Type].Properties
               /\ FitsProperty(o.Data[f], Schemas[o.Type].Properties[f])
        /\ \A r \in Schemas[o.Type].Required : r \in DOMAIN o.Data /\ o.Data[r] # Null

SameValue(o1, f1, o2, f2) ==
    /\ f1 \in DOMAIN o1.Data /\ o1.Data[f1] # Null
    /\ f2 \in DOMAIN o2.Data /\ o2.Data[f2] # Null
    /\ o1.Data[f1] = o2.Data[f2]

Duplicates(c) == {o \in OfType(c.Type) : \E q \in OfType(c.Type) : q # o /\ SameValue(o, c.Field, q, c.Field)}

Dangling(fk) ==
    {o \in OfType(fk.FromType) :
        /\ fk.FromField \in DOMAIN o.Data /\ o.Data[fk.FromField] # Null
        /\ ~\E q \in OfType(fk.ToType) : SameValue(o, fk.FromField, q, fk.ToField)}

ConstraintsHold ==
    /\ \A c \in Range(Constraints.Unique) : Duplicates(c) = {}
    /\ \A fk \in Range(Constraints.ForeignKeys) : Dangling(fk) = {}

ConstraintIssues == {lastResult.issues[i] : i \in {j \in DOMAIN lastResult.issues :
                                                     lastResult.issues[j].Stage = "constraints"}}

(* an object is reported as a duplicate only if another object of the type *)
(* holds the same value of the same kind                                   *)
KindsDistinct ==
    \A c \in Range(Constraints.Unique), i \in ConstraintIssues :
        (i.Field = c.Field /\ i.Message = "duplicate value") =>
            \E o \in Duplicates(c) : o.Path = i.Path

C20_LayoutAcceptsUIConfig ==
    lastResult.op \in {"save", "merge", "validate"} =>
        \A i \in DOMAIN lastResult.issues :
            ~(lastResult.issues[i].Stage = "layout"
              /\ lastResult.issues[i].Path = PathString(UIConfigRel))

(* C21: a document that is accepted parses to an object whose emitted text *)
(* is accepted and parses to the same object; the text emitted for a       *)
(* normalized object is accepted, and emitting what it parses to gives the *)
(* same text again                                                         *)
C21_CodecRoundTrip ==
    /\ (lastResult.op = "rewritten" /\ lastResult.parsed.ok) =>
           /\ lastResult.emitted.ok
           /\ lastResult.reparsed.ok
           /\ lastResult.reparsed.m = lastResult.parsed.m
    /\ lastResult.op = "written" =>
           /\ lastResult.emitted.ok
           /\ lastResult.reparsed.ok
           /\ lastResult.reemitted = lastResult.emitted

(* the _id and _type of the data are the identity the path is built from *)
AgreesWithPath(obj) ==
    /\ obj.ID # "" /\ obj.Type # ""
    /\ "_id" \in DOMAIN obj.Data /\ obj.Data["_id"] = StrV(CharsOf(obj.ID))
    /\ "_type" \in DOMAIN obj.Data /\ obj.Data["_type"] = StrV(CharsOf(obj.Type))

(* C22: WriteObject succeeds only for an object whose _id and _type are    *)
(* not empty and agree with data/<type>/<id>.yaml, and ReadObject of the   *)
(* written file returns the data that was written                          *)
C22_WriteThenRead ==
    (lastResult.op = "WriteObject" /\ lastResult.written.ok) =>
        /\ AgreesWithPath(lastResult.obj)
        /\ lastResult.read.ok
        /\ lastResult.read.data = lastResult.obj.Data

(* the value of a field of the object stored at a path of a tree *)
ObjectFields == Range(SortedNames)
Absent == <<"absent">>
FieldAt(tree, p, f) ==
    LET of(parsed) == IF parsed.ok /\ f \in DOMAIN parsed.m THEN parsed.m[f] ELSE Absent
    IN  IF ~tree[p].exists THEN Absent ELSE of(ParseSimpleYAMLObject(tree[p]))

ChangedFields(from, to) ==
    {pf \in DataPaths \X ObjectFields : FieldAt(from, pf[1], pf[2]) # FieldAt(to, pf[1], pf[2])}

BaseTree(name) == Tree(mergeBase(main, ws[name].branch).sha)

(* since their common commit, main and the branch of the workspace have    *)
(* changed different fields, and the branch has changed some               *)
DisjointChanges(name) ==
    /\ ChangedFields(BaseTree(name), Tree(main))
           \cap ChangedFields(BaseTree(name), Tree(ws[name].branch)) = {}
    /\ ChangedFields(BaseTree(name), Tree(ws[name].branch)) # {}

(* C23: no lost update across sequential merges.  When a workspace is      *)
(* merged without resolutions and the fields its branch has changed since  *)
(* the common commit are different from the fields main has changed since  *)
(* then (by an earlier merge of another workspace created from the same    *)
(* commit), the merge reports no conflict, completes, and leaves on main   *)
(* the workspace's value of every field the workspace changed and main's   *)
(* value of every other field.                                             *)
C23_NoLostUpdate ==
    [][\A name \in Names :
          (MergeStep /\ lastResult'.name = name /\ MergeAdmitted(name) /\ DisjointChanges(name))
          => /\ lastResult'.err = ""
             /\ lastResult'.Conflicts = << >>
             /\ lastResult'.Merged
             /\ \A pf \in DataPaths \X ObjectFields :
                    FieldAt(commits'[main'].tree, pf[1], pf[2])
                        = IF pf \in ChangedFields(BaseTree(name), Tree(ws[name].branch))
                          THEN FieldAt(Tree(ws[name].branch), pf[1], pf[2])
                          ELSE FieldAt(Tree(main), pf[1], pf[2])]_vars

(* both workspaces were saved on the first commit and merged one after the *)
(* other: main has the name of w1 and the code of w2                       *)
C23_Witness ==
    /\ Len(commits) = 5
    /\ commits[2].parent = 1
    /\ commits[3].parent = 1
    /\ main = 5
    /\ lastResult.op = "merge"
    /\ lastResult.Merged
    /\ FieldAt(Tree(main), TeamRel, "name") = StrV(<<"b">>)
    /\ FieldAt(Tree(main), TeamRel, "code") = StrV(<<"c", "2">>)

(* the checkout of the workspace holds changes that are not committed to   *)
(* the workspace branch                                                    *)
UnsavedWork(name) ==
    /\ ws[name].dir
    /\ ws[name].branch # 0
    /\ ws[name].files # Tree(ws[name].branch)

(* C24: MergeWorkspace never destroys unsaved work.  A merge of a          *)
(* workspace whose checkout holds uncommitted changes does not return      *)
(* Merged = true with the worktree removed.                                *)
C24_MergeKeepsUnsavedWork ==
    [][\A name \in Names :
          (MergeStep /\ lastResult'.name = name /\ UnsavedWork(name))
          => ~(lastResult'.Merged /\ ~ws'[name].dir)]_vars

(* the paths outside data/ where the branch of the workspace differs from  *)
(* main                                                                    *)
ConfigChanges(name) ==
    {p \in Paths \ DataPaths : Tree(ws[name].branch)[p] # Tree(main)[p]}

(* C25: a successful merge loses no committed workspace change.  When the  *)
(* branch of the workspace differs from main in a path outside             *)
(* data/**/*.yaml, MergeWorkspace brings the branch's content of that path *)
(* into main or keeps the workspace branch.                                *)
C25_MergeKeepsConfigChanges ==
    [][\A name \in Names :
          (MergeStep /\ lastResult'.name = name /\ ws[name].branch # 0
                     /\ ConfigChanges(name) # {})
          => \/ ws'[name].branch # 0
             \/ \A p \in ConfigChanges(name) :
                    commits'[main'].tree[p] = Tree(ws[name].branch)[p]]_vars

(* C26: whenever MergeWorkspace returns an error, main points to the same  *)
(* commit as before the call and the workspace still exists (its worktree  *)
(* and its branch are as before), also when the staging, the commit or the *)
(* deletion of the workspace is the step that fails.                       *)
C26_ErrorChangesNothing ==
    [][\A name \in Names :
          (MergeStep /\ lastResult'.name = name /\ lastResult'.err # "")
          => /\ main' = main
             /\ commits' = commits
             /\ ws'[name] = ws[name]]_vars

TrunkClean == ChangedEntries(trunk.files, trunk.index, Tree(main)) = << >>

(* C27: after a MergeWorkspace call that returns an error, the trunk       *)
(* checkout has no uncommitted changes: when trunk was clean before the    *)
(* call, its working tree and its index both equal the tree of main's HEAD *)
(* after it.                                                               *)
C27_ErrorLeavesTrunkClean ==
    [][(MergeStep /\ lastResult'.err # "" /\ TrunkClean)
       => /\ trunk'.files = commits'[main'].tree
          /\ trunk'.index = commits'[main'].tree]_vars

(* the merge of lastResult' applied a three-way result that is trunk's     *)
(* content: the files the validator was given are the files of trunk       *)
(* before the call, and the validator had no issue                         *)
MergedIsTrunk ==
    /\ MergeStep
    /\ Logged(lastResult', "validate")
    /\ lastResult'.validated = trunk.files
    /\ lastResult'.issues = << >>

(* C28: when the three-way merge result of every changed path is identical *)
(* to trunk's current content (the workspace has no change of its own and  *)
(* main has advanced since it was created), MergeWorkspace completes       *)
(* without error and leaves trunk's files and main's commit unchanged.     *)
C28_NothingToMergeIsNoError ==
    [][MergedIsTrunk
       => /\ lastResult'.err = ""
          /\ trunk'.files = trunk.files
          /\ main' = main]_vars

(* the result MergeWorkspace gives, without resolutions, on the repository *)
(* as it is                                                                *)
MergeNow(name) == MergeWorkspace(name, << >>, << >>, "asc").res

(* C29: the preview agrees with the merge.  On a clean trunk, for a        *)
(* workspace whose checkout is clean and whose merge has no conflict and   *)
(* reaches the validation of the applied files, ValidateMergePreview       *)
(* returns no issue exactly when that validation of MergeWorkspace has no  *)
(* issue.                                                                  *)
C29_PreviewAgreesWithMerge ==
    [][\A name \in Names :
          (/\ lastResult'.op = "preview"
           /\ lastResult'.name = name
           /\ MergeAdmitted(name)
           /\ ~UnsavedWork(name)
           /\ MergeNow(name).Conflicts = << >>
           /\ Logged(MergeNow(name), "validate"))
          => ((lastResult'.err = "" /\ lastResult'.issues = << >>)
                  <=> MergeNow(name).issues = << >>)]_vars

(* process p takes the step of SaveWorkspace that stages and commits, and  *)
(* a commit is made                                                        *)
SaveCommits(p) ==
    /\ calls[p].pc = "saveCommit"
    /\ calls'[p].pc # "saveCommit"
    /\ commits' # commits

(* C30: every commit created by SaveWorkspace contains exactly the content *)
(* of the workspace checkout on which the validator of that call returned  *)
(* no issues, in every interleaving with the writes of the web to the same *)
(* checkout and with the other calls.                                      *)
C30_SaveCommitsValidated ==
    [][\A p \in Procs :
          SaveCommits(p)
          => /\ calls[p].res.issues = << >>
             /\ commits'[Len(commits')].tree = calls[p].res.validated]_vars

====
